---- MODULE Spec2Model ----
(***************************************************************************)
(* A model of the strict JSON parsing core of nestjs-strict-json:          *)
(* the pattern matcher (src/core/utils.ts), the validating tree walker,    *)
(* the LRU result cache and the two entry points parseStrictJson and       *)
(* parseStrictJsonAsync (src/core/parser.ts).                              *)
(*                                                                         *)
(* Strings that the code inspects character by character (key paths,       *)
(* glob patterns, the raw input text) are sequences of one-character       *)
(* strings.  An option of StrictJsonOptions is a set holding at most one   *)
(* value: {} is "undefined", {v} is the value v.                           *)
(***************************************************************************)
EXTENDS Integers, Sequences, FiniteSets, TLC

(***************************************************************************)
(* Bounds of the model.                                                    *)
(***************************************************************************)
\* how many wrapper levels the generated documents have around their leaf
MaxNest == 2
\* the small maxDepth a caller passes
SmallDepth == 2
\* the small lazyModeDepthLimit a caller passes
SmallLazyDepth == 1
\* the small streamingThreshold / lazyModeThreshold a caller passes (bytes)
SmallThreshold == 14
\* the small maxBodySizeBytes a caller passes (bytes)
SmallBody == 6
\* the clock runs from 0 to MaxTime
MaxTime == 2
\* the small cacheTTL a caller passes (clock units)
SmallTTL == 1
\* the small cacheSize a caller passes
SmallCache == 1
\* how many async calls may be suspended at once
MaxPending == 1
\* a streaming parse starts only while the shared pathStack is this short
MaxPathStack == 2
MaxSweeps == 1
MaxChunks == 2

(***************************************************************************)
(* Program constants.                                                      *)
(***************************************************************************)
DEFAULT_CACHE_TTL == 60000
DEFAULT_CACHE_SIZE == 1000
DefaultMaxDepth == 20
DefaultLazyModeDepthLimit == 10
DefaultThreshold == 100 * 1024
SweepInterval == 5 * 60 * 1000

(***************************************************************************)
(* Character-sequence helpers (the String methods the code uses).          *)
(***************************************************************************)
Digits == <<"0", "1", "2", "3", "4", "5", "6", "7", "8", "9">>

IsDigit(c) == \E i \in 1..10 : Digits[i] = c

\* String(i) for a one-digit number
DigitOf(i) == Digits[i + 1]

\* s.startsWith(p)
StartsWith(s, p) == Len(p) <= Len(s) /\ SubSeq(s, 1, Len(p)) = p

\* s.endsWith(p)
EndsWith(s, p) == Len(p) <= Len(s) /\ SubSeq(s, Len(s) - Len(p) + 1, Len(s)) = p

\* s.slice(n)
SliceFrom(s, n) == SubSeq(s, n + 1, Len(s))

\* s.slice(0, -n)
DropLast(s, n) == SubSeq(s, 1, Len(s) - n)

\* s.includes(c) for a one-character c
IncludesChar(s, c) == \E i \in 1..Len(s) : s[i] = c

\* s.indexOf(c), zero-based, -1 when absent
IndexOfChar(s, c) ==
  IF IncludesChar(s, c)
    THEN (CHOOSE i \in 1..Len(s) : s[i] = c /\ \A j \in 1..(i - 1) : s[j] # c) - 1
    ELSE -1

\* s.indexOf("**"), zero-based, -1 when absent
IndexOfStarStar(s) ==
  LET hits == {i \in 1..(Len(s) - 1) : s[i] = "*" /\ s[i + 1] = "*"}
  IN IF hits = {} THEN -1 ELSE (CHOOSE i \in hits : \A j \in hits : i <= j) - 1

\* s.split('.')[s.split('.').length - 1]
LastDotPart(s) ==
  LET dots == {i \in 1..Len(s) : s[i] = "."}
  IN IF dots = {} THEN s
     ELSE SubSeq(s, (CHOOSE i \in dots : \A j \in dots : j <= i) + 1, Len(s))

(***************************************************************************)
(* JSON documents.  A node of the tree jsonc-parser builds is a record     *)
(* [type, children, value]; the children of an object are its properties   *)
(* [key, value] in document order, the children of an array its elements.  *)
(* The input "invalid" stands for a text that is not JSON.                 *)
(***************************************************************************)
Num(n) == [type |-> "number", children |-> <<>>, value |-> n]
Null == [type |-> "null", children |-> <<>>, value |-> 0]
Obj(props) == [type |-> "object", children |-> props, value |-> 0]
Arr(elems) == [type |-> "array", children |-> elems, value |-> 0]
Invalid == [type |-> "invalid", children |-> <<>>, value |-> 0]
Prop(k, v) == [key |-> k, value |-> v]

KeyA == <<"a">>
KeyB == <<"b">>
KeyProto == <<"_", "_", "p", "r", "o", "t", "o", "_", "_">>
KeyConstructor == <<"c", "o", "n", "s", "t", "r", "u", "c", "t", "o", "r">>
KeyPrototype == <<"p", "r", "o", "t", "o", "t", "y", "p", "e">>

RECURSIVE JoinSeqs(_, _)
\* parts.join(sep)
JoinSeqs(parts, sep) ==
  IF Len(parts) = 0 THEN <<>>
  ELSE IF Len(parts) = 1 THEN parts[1]
  ELSE parts[1] \o sep \o JoinSeqs(Tail(parts), sep)

RECURSIVE Serialize(_)
\* the raw text of a document (compact JSON, ASCII)
Serialize(node) ==
  CASE node.type = "number" -> <<DigitOf(node.value)>>
    [] node.type = "null" -> <<"n", "u", "l", "l">>
    [] node.type = "invalid" -> <<"{", "\"", "a", "\"", ":", "1", ",", "}">>
    [] node.type = "object" ->
         <<"{">> \o
         JoinSeqs([i \in 1..Len(node.children) |->
                     <<"\"">> \o node.children[i].key \o <<"\"", ":">>
                       \o Serialize(node.children[i].value)], <<",">>)
         \o <<"}">>
    [] node.type = "array" ->
         <<"[">> \o
         JoinSeqs([i \in 1..Len(node.children) |-> Serialize(node.children[i])],
                  <<",">>)
         \o <<"]">>

\* Buffer.from(raw, "utf8").byteLength: the texts are ASCII
ByteLength(doc) == Len(Serialize(doc))

RECURSIVE Decode(_)
\* JSON.parse of a valid text: of a repeated key the last value wins and the
\* key keeps the place of its first occurrence
Decode(node) ==
  CASE node.type = "object" ->
         LET ps == node.children
             firsts == {i \in 1..Len(ps) : \A j \in 1..(i - 1) : ps[j].key # ps[i].key}
             lastOf(i) == CHOOSE j \in 1..Len(ps) :
                            /\ ps[j].key = ps[i].key
                            /\ \A m \in (j + 1)..Len(ps) : ps[m].key # ps[i].key
             RECURSIVE build(_)
             build(i) ==
               IF i > Len(ps) THEN <<>>
               ELSE IF i \in firsts
                 THEN <<Prop(ps[i].key, Decode(ps[lastOf(i)].value))>> \o build(i + 1)
                 ELSE build(i + 1)
         IN Obj(build(1))
    [] node.type = "array" ->
         Arr([i \in 1..Len(node.children) |-> Decode(node.children[i])])
    [] OTHER -> node

(***************************************************************************)
(* The pattern matcher (src/core/utils.ts).  A compiled glob is a sequence *)
(* of regular-expression items [cls, ch, star]: cls "lit" matches the      *)
(* character ch, "any" matches every character, "nondot" every character   *)
(* but "."; star says the item may repeat zero or more times.              *)
(***************************************************************************)
ReItem(cls, ch, star) == [cls |-> cls, ch |-> ch, star |-> star]

RECURSIVE GlobItems(_, _)
\* the items globToRegex appends from the zero-based position i on
GlobItems(pattern, i) ==
  IF i >= Len(pattern) THEN <<>>
  ELSE
    LET c == pattern[i + 1]
        hasNext == i + 1 < Len(pattern)
        next == IF hasNext THEN pattern[i + 2] ELSE ""
    IN IF c = "*"
         THEN IF hasNext /\ next = "*"
                THEN <<ReItem("any", "", TRUE)>> \o GlobItems(pattern, i + 2)
              ELSE IF ~hasNext
                THEN <<ReItem("any", "", TRUE)>> \o GlobItems(pattern, i + 1)
              ELSE IF next = "."
                THEN <<ReItem("nondot", "", TRUE)>> \o GlobItems(pattern, i + 1)
              ELSE IF next = "]"
                \* the text '[^]]*' is, for a JavaScript RegExp, the class [^]
                \* (every character) followed by ]*
                THEN <<ReItem("any", "", FALSE), ReItem("lit", "]", TRUE)>>
                       \o GlobItems(pattern, i + 1)
              ELSE <<ReItem("nondot", "", TRUE)>> \o GlobItems(pattern, i + 1)
       ELSE IF c = "?"
         THEN <<ReItem("any", "", FALSE)>> \o GlobItems(pattern, i + 1)
       ELSE <<ReItem("lit", c, FALSE)>> \o GlobItems(pattern, i + 1)

globToRegex(pattern) == GlobItems(pattern, 0)

ItemAccepts(item, c) ==
  CASE item.cls = "lit" -> c = item.ch
    [] item.cls = "any" -> TRUE
    [] item.cls = "nondot" -> c # "."

RECURSIVE RegexTest(_, _, _, _)
\* whether items[ti..] match exactly s[si..] (the RegExp is anchored by ^ and $)
RegexTest(items, ti, s, si) ==
  IF ti > Len(items) THEN si > Len(s)
  ELSE IF items[ti].star
    THEN \/ RegexTest(items, ti + 1, s, si)
         \/ /\ si <= Len(s)
            /\ ItemAccepts(items[ti], s[si])
            /\ RegexTest(items, ti, s, si + 1)
    ELSE /\ si <= Len(s)
         /\ ItemAccepts(items[ti], s[si])
         /\ RegexTest(items, ti + 1, s, si + 1)

matchGlobPattern(key, pattern) == RegexTest(globToRegex(pattern), 1, key, 1)

RECURSIVE NormalizeFrom(_, _)
\* key.replace(/\[\d+\]/g, '[*]') from the one-based position i on
NormalizeFrom(key, i) ==
  IF i > Len(key) THEN <<>>
  ELSE
    LET ends == {j \in (i + 2)..Len(key) :
                   /\ key[j] = "]"
                   /\ \A m \in (i + 1)..(j - 1) : IsDigit(key[m])}
    IN IF key[i] = "[" /\ ends # {}
         THEN <<"[", "*", "]">>
                \o NormalizeFrom(key, (CHOOSE j \in ends : \A m \in ends : j <= m) + 1)
         ELSE <<key[i]>> \o NormalizeFrom(key, i + 1)

normalizeKeyForPatternMatching(key) == NormalizeFrom(key, 1)

\* one pass of the whitelist loop: whether `pattern` whitelists the key
WhitelistedBy(pattern, normalizedKey, keyForPatternMatching) ==
  \/ pattern = normalizedKey
  \/ StartsWith(pattern, normalizedKey \o <<".">>)
  \/ StartsWith(pattern, normalizedKey \o <<"[">>)
  \/ EndsWith(pattern, <<".", "*">>) /\ normalizedKey = DropLast(pattern, 2)
  \/ matchGlobPattern(keyForPatternMatching, pattern)
  \/ StartsWith(pattern, <<"*", ".">>)
       /\ LastDotPart(normalizedKey) = SliceFrom(pattern, 2)
  \/ LET at == IndexOfStarStar(pattern)
     IN at > 0 /\ StartsWith(normalizedKey, SubSeq(pattern, 1, at))
  \/ LET starIndex == IndexOfChar(pattern, "*")
         prefix == SubSeq(pattern, 1, starIndex)
         normalizedPrefix == IF EndsWith(prefix, <<".">>) THEN DropLast(prefix, 1)
                             ELSE prefix
     IN /\ starIndex > 0
        /\ \/ normalizedKey = normalizedPrefix
           \/ StartsWith(normalizedKey, normalizedPrefix \o <<".">>)
           \/ StartsWith(normalizedKey, normalizedPrefix \o <<"[">>)
  \/ /\ pattern # normalizedKey
     /\ StartsWith(pattern, normalizedKey \o <<".">>)
     /\ EndsWith(pattern, <<".", "*">>)

\* one pass of the blacklist loop: whether `pattern` rejects the key
BlacklistedBy(pattern, normalizedKey, keyForPatternMatching) ==
  \/ StartsWith(pattern, <<"*", ".">>)
       /\ LastDotPart(normalizedKey) = SliceFrom(pattern, 2)
  \/ ~IncludesChar(pattern, "*") /\ EndsWith(normalizedKey, <<".">> \o pattern)
  \/ matchGlobPattern(keyForPatternMatching, pattern)

SeqRange(s) == {s[i] : i \in 1..Len(s)}

\* isKeyAllowed without its allow-list section: only the deny-list decides
DeniedOnly(key, whitelist, blacklist) ==
  LET normalizedKey == IF StartsWith(key, <<"$", ".">>) THEN SliceFrom(key, 2) ELSE key
      keyForPatternMatching == normalizeKeyForPatternMatching(normalizedKey)
      bl == IF blacklist = {} THEN {} ELSE SeqRange(CHOOSE b \in blacklist : TRUE)
  IN ~\E p \in bl : BlacklistedBy(p, normalizedKey, keyForPatternMatching)

\* isKeyAllowed(key, whitelist, blacklist); the lists are options ({} when
\* the caller passed none)
isKeyAllowed(key, whitelist, blacklist) ==
  LET normalizedKey == IF StartsWith(key, <<"$", ".">>) THEN SliceFrom(key, 2) ELSE key
      keyForPatternMatching == normalizeKeyForPatternMatching(normalizedKey)
      wl == IF whitelist = {} THEN {} ELSE SeqRange(CHOOSE w \in whitelist : TRUE)
      bl == IF blacklist = {} THEN {} ELSE SeqRange(CHOOSE b \in blacklist : TRUE)
      whitelisted == \E p \in wl : WhitelistedBy(p, normalizedKey, keyForPatternMatching)
      matchesNonWildcardWhitelist ==
        \E w \in wl : /\ ~IncludesChar(w, "*")
                      /\ \/ normalizedKey = w
                         \/ StartsWith(normalizedKey, w \o <<".">>)
      matchesWildcardWhitelist ==
        \E w \in wl : /\ IncludesChar(w, "*")
                      /\ matchGlobPattern(keyForPatternMatching, w)
      matchesBlacklist == \E p \in bl : matchGlobPattern(keyForPatternMatching, p)
  IN IF whitelist # {} /\ ~whitelisted THEN FALSE
     ELSE IF bl = {} THEN TRUE
     ELSE IF matchesNonWildcardWhitelist THEN TRUE
     ELSE IF matchesWildcardWhitelist THEN ~matchesBlacklist
     ELSE ~\E p \in bl : BlacklistedBy(p, normalizedKey, keyForPatternMatching)

(***************************************************************************)
(* Options (src/core/types.ts) and errors (src/core/errors.ts).            *)
(***************************************************************************)
\* options?.x ?? d
OrElse(opt, d) == IF opt = {} THEN d ELSE CHOOSE v \in opt : TRUE

NoOptions ==
  [maxBodySizeBytes |-> {}, enablePrototypePollutionProtection |-> {},
   dangerousKeys |-> {}, whitelist |-> {}, blacklist |-> {}, maxDepth |-> {},
   enableStreaming |-> {}, streamingThreshold |-> {},
   lazyMode |-> {}, lazyModeThreshold |-> {}, lazyModeDepthLimit |-> {},
   lazyModeSkipPrototype |-> {}, lazyModeSkipWhitelist |-> {},
   lazyModeSkipBlacklist |-> {},
   enableCache |-> {}, cacheSize |-> {}, cacheTTL |-> {}, enableFastPath |-> {},
   onDuplicateKey |-> {}, onInvalidJson |-> {}, onBodyTooLarge |-> {},
   onPrototypePollution |-> {}, onError |-> {}]

DefaultDangerousKeys == <<KeyProto, KeyConstructor, KeyPrototype>>

\* a StrictJsonError: its code and the structured fields of its details
StrictJsonError(code, message, path, key, dangerousKey, currentDepth, maxDepth) ==
  [code |-> code, message |-> message, path |-> path, key |-> key,
   dangerousKey |-> dangerousKey, currentDepth |-> currentDepth, maxDepth |-> maxDepth]

DuplicateKeyError(path, key) ==
  StrictJsonError("STRICT_JSON_DUPLICATE_KEY", "Duplicate JSON key", path, key, <<>>, -1, -1)

PlainError(message) == StrictJsonError("", message, <<>>, <<>>, <<>>, -1, -1)

InvalidJsonError(message) ==
  StrictJsonError("STRICT_JSON_INVALID_JSON", message, <<>>, <<>>, <<>>, -1, -1)

BodyTooLargeError ==
  StrictJsonError("STRICT_JSON_BODY_TOO_LARGE", "Request body exceeds max size",
                  <<>>, <<>>, <<>>, -1, -1)

PrototypePollutionError(dangerousKey, path) ==
  StrictJsonError("STRICT_JSON_PROTOTYPE_POLLUTION", "Prototype pollution attempt detected",
                  path, <<>>, dangerousKey, -1, -1)

DepthLimitError(currentDepth, maxDepth) ==
  StrictJsonError("STRICT_JSON_DEPTH_LIMIT", "JSON depth limit exceeded",
                  <<>>, <<>>, <<>>, currentDepth, maxDepth)

NoError == StrictJsonError("", "", <<>>, <<>>, <<>>, -1, -1)

(***************************************************************************)
(* The validating tree walker, findDuplicateInNode (src/core/parser.ts).   *)
(* The explicit stack is a sequence whose last element is the top.         *)
(***************************************************************************)
\* the walker's configuration with the lazy depth limit replacing maxDepth
\* instead of tightening it
WalkConfigLazyLimitAlone(options) ==
  LET lazyMode == options.lazyMode = {TRUE}
      lazyModeDepthLimit == OrElse(options.lazyModeDepthLimit, DefaultLazyModeDepthLimit)
      lazyModeSkipPrototype == OrElse(options.lazyModeSkipPrototype, TRUE)
      lazyModeSkipBlacklist == OrElse(options.lazyModeSkipBlacklist, FALSE)
      maxDepth == OrElse(options.maxDepth, DefaultMaxDepth)
      enablePrototypeProtection == options.enablePrototypePollutionProtection # {FALSE}
      shouldCheckPrototype == enablePrototypeProtection /\ ~(lazyMode /\ lazyModeSkipPrototype)
      hasWhitelistOrBlacklist == options.whitelist # {} \/ options.blacklist # {}
  IN [shouldCheckPrototype |-> shouldCheckPrototype,
      dangerousKeysSet |->
        IF shouldCheckPrototype
          THEN SeqRange(OrElse(options.dangerousKeys, DefaultDangerousKeys))
          ELSE {},
      shouldCheckBlacklist |-> hasWhitelistOrBlacklist /\ ~(lazyMode /\ lazyModeSkipBlacklist),
      effectiveDepthLimit |-> IF lazyMode THEN lazyModeDepthLimit ELSE maxDepth,
      whitelist |-> options.whitelist,
      blacklist |-> options.blacklist]

\* the pre-computed configuration of one walk
WalkConfig(options) ==
  LET lazyMode == options.lazyMode = {TRUE}
      lazyModeDepthLimit == OrElse(options.lazyModeDepthLimit, DefaultLazyModeDepthLimit)
      lazyModeSkipPrototype == OrElse(options.lazyModeSkipPrototype, TRUE)
      lazyModeSkipBlacklist == OrElse(options.lazyModeSkipBlacklist, FALSE)
      maxDepth == OrElse(options.maxDepth, DefaultMaxDepth)
      enablePrototypeProtection == options.enablePrototypePollutionProtection # {FALSE}
      shouldCheckPrototype == enablePrototypeProtection /\ ~(lazyMode /\ lazyModeSkipPrototype)
      hasWhitelistOrBlacklist == options.whitelist # {} \/ options.blacklist # {}
  IN [shouldCheckPrototype |-> shouldCheckPrototype,
      dangerousKeysSet |->
        IF shouldCheckPrototype
          THEN SeqRange(OrElse(options.dangerousKeys, DefaultDangerousKeys))
          ELSE {},
      shouldCheckBlacklist |-> hasWhitelistOrBlacklist /\ ~(lazyMode /\ lazyModeSkipBlacklist),
      effectiveDepthLimit |->
        IF lazyMode
          THEN (IF maxDepth < lazyModeDepthLimit THEN maxDepth ELSE lazyModeDepthLimit)
          ELSE maxDepth,
      whitelist |-> options.whitelist,
      blacklist |-> options.blacklist]

StackFrame(node, path, depth, seenKeys) ==
  [node |-> node, path |-> path, depth |-> depth, seenKeys |-> seenKeys]

\* the seenKeys of a frame pushed while currentSeenKeys is the set of the
\* object being iterated: a new, empty Set
SharedSeenKeys(currentSeenKeys) == currentSeenKeys

NewSeenKeys(currentSeenKeys) == {}

\* the depth check made on every popped frame
DepthExceededOffByOne(currentDepth, effectiveDepthLimit) ==
  currentDepth >= effectiveDepthLimit

DepthExceeded(currentDepth, effectiveDepthLimit) == currentDepth > effectiveDepthLimit

\* the dangerous-key test made on every property
IsDangerousByPath(cfg, key, keyPath) ==
  cfg.shouldCheckPrototype /\ key \in cfg.dangerousKeysSet /\ Len(keyPath) = Len(key) + 2

IsDangerousKey(cfg, key, keyPath) == cfg.shouldCheckPrototype /\ key \in cfg.dangerousKeysSet

WalkNull == [kind |-> "null", key |-> <<>>, path |-> <<>>, error |-> NoError]
WalkDuplicate(key, path) == [kind |-> "duplicate", key |-> key, path |-> path, error |-> NoError]
WalkThrow(e) == [kind |-> "throw", key |-> <<>>, path |-> <<>>, error |-> e]
WalkGoOn(stack) == [kind |-> "goon", stack |-> stack]

RECURSIVE ObjectLoop(_, _, _, _, _)
\* the for loop over the properties of an object node, from index i (one-based)
\* down to the first; seen is currentSeenKeys
ObjectLoop(frame, i, seen, stack, cfg) ==
  IF i < 1 THEN WalkGoOn(stack)
  ELSE
    LET prop == frame.node.children[i]
        key == prop.key
        keyPath == frame.path \o <<".">> \o key
    IN IF cfg.shouldCheckBlacklist /\ ~isKeyAllowed(keyPath, cfg.whitelist, cfg.blacklist)
         THEN WalkThrow(InvalidJsonError("Key is not allowed"))
       ELSE IF IsDangerousKey(cfg, key, keyPath)
         THEN WalkThrow(PrototypePollutionError(key, keyPath))
       ELSE IF key \in seen
         THEN WalkDuplicate(key, keyPath)
       ELSE ObjectLoop(frame, i - 1, seen \cup {key},
                       Append(stack, StackFrame(prop.value, keyPath, frame.depth + 1,
                                                NewSeenKeys(seen \cup {key}))),
                       cfg)

\* the frames the for loop over an array node pushes: the last element first
ArrayPushes(frame) ==
  LET n == Len(frame.node.children)
  IN [j \in 1..n |->
        StackFrame(frame.node.children[n + 1 - j],
                   frame.path \o <<"[", DigitOf(n - j), "]">>,
                   frame.depth + 1, {})]

RECURSIVE WalkLoop(_, _)
\* while (stack.length > 0) { ... }
WalkLoop(stack, cfg) ==
  IF Len(stack) = 0 THEN WalkNull
  ELSE
    LET frame == stack[Len(stack)]
        rest == SubSeq(stack, 1, Len(stack) - 1)
    IN IF DepthExceeded(frame.depth, cfg.effectiveDepthLimit)
         THEN WalkThrow(DepthLimitError(frame.depth, cfg.effectiveDepthLimit))
       ELSE IF frame.node.type = "object"
         THEN LET r == ObjectLoop(frame, Len(frame.node.children), frame.seenKeys, rest, cfg)
              IN IF r.kind = "goon" THEN WalkLoop(r.stack, cfg) ELSE r
       ELSE IF frame.node.type = "array"
         THEN WalkLoop(rest \o ArrayPushes(frame), cfg)
       ELSE WalkLoop(rest, cfg)

findDuplicateInNode(node, options) ==
  WalkLoop(<<StackFrame(node, <<"$">>, 0, {})>>, WalkConfig(options))

\* parseTree reports errors exactly for a text that is not JSON
findDuplicateKeysInJson(doc, options) ==
  IF doc.type = "invalid" THEN WalkNull ELSE findDuplicateInNode(doc, options)

RECURSIVE HasDefaultDangerousKey(_)
\* checkPrototypePollution of parseWithFastPath throws: some own key of the
\* decoded value, at any depth, is one of the three built-in names
HasDefaultDangerousKey(value) ==
  CASE value.type = "object" ->
         \E i \in 1..Len(value.children) :
           \/ value.children[i].key \in SeqRange(DefaultDangerousKeys)
           \/ HasDefaultDangerousKey(value.children[i].value)
    [] value.type = "array" ->
         \E i \in 1..Len(value.children) : HasDefaultDangerousKey(value.children[i])
    [] OTHER -> FALSE

\* parseWithFastPath: the value, or a throw (of JSON.parse or of the check)
parseWithFastPath(doc, options) ==
  IF doc.type = "invalid" THEN [ok |-> FALSE, value |-> Null]
  ELSE IF options.enablePrototypePollutionProtection # {FALSE}
            /\ HasDefaultDangerousKey(Decode(doc))
    THEN [ok |-> FALSE, value |-> Null]
  ELSE [ok |-> TRUE, value |-> Decode(doc)]

\* shouldUseStreamingForPayload
shouldUseStreamingForPayload(doc, options) ==
  IF options.enableStreaming = {FALSE} THEN FALSE
  ELSE ByteLength(doc) >= OrElse(options.streamingThreshold, DefaultThreshold)

(***************************************************************************)
(* StreamingJsonParser (src/core/streaming-parser.ts), fed the whole text  *)
(* as one chunk, as parseLargePayload does.  Every parser's state is a     *)
(* shallow copy of INITIAL_STATE, so all parsers push to and pop from the  *)
(* one pathStack array of INITIAL_STATE: it is a variable of the model.    *)
(***************************************************************************)
StreamState(pathStack) ==
  [inString |-> FALSE, escapeNext |-> FALSE, inObject |-> FALSE,
   objectDepth |-> 0, arrayDepth |-> 0, currentKey |-> <<>>,
   keysInCurrentObject |-> {}, pathStack |-> pathStack,
   completed |-> FALSE, error |-> FALSE, thrown |-> ""]

RECURSIVE StringEnd(_, _, _)
\* processStringStart's scan: the zero-based position of the closing quote,
\* or buffer.length when the buffer ends first
StringEnd(buffer, endPos, escapeNext) ==
  IF endPos >= Len(buffer) THEN endPos
  ELSE IF escapeNext THEN StringEnd(buffer, endPos + 1, FALSE)
  ELSE IF buffer[endPos + 1] = "\\" THEN StringEnd(buffer, endPos + 1, TRUE)
  ELSE IF buffer[endPos + 1] = "\"" THEN endPos
  ELSE StringEnd(buffer, endPos + 1, FALSE)

\* validateKey throws
KeyRejected(st, key, options) ==
  LET keyPath == JoinSeqs(st.pathStack, <<".">>) \o <<".">> \o key
  IN \/ /\ (options.whitelist # {} \/ options.blacklist # {})
        /\ ~isKeyAllowed(keyPath, options.whitelist, options.blacklist)
     \/ /\ options.enablePrototypePollutionProtection # {FALSE}
        /\ key \in SeqRange(OrElse(options.dangerousKeys, DefaultDangerousKeys))

\* the message of the Error validateKey throws, up to the key and the path
KeyRejection(st, key, options) ==
  LET keyPath == JoinSeqs(st.pathStack, <<".">>) \o <<".">> \o key
  IN IF /\ (options.whitelist # {} \/ options.blacklist # {})
        /\ ~isKeyAllowed(keyPath, options.whitelist, options.blacklist)
       THEN "Key is not allowed"
     ELSE IF KeyRejected(st, key, options) THEN "Prototype pollution detected"
     ELSE ""

\* processStringStart(buffer, pos), the state's inString already set
processStringStart(st, buffer, pos, options) ==
  IF ~st.inObject \/ st.currentKey # <<>> THEN st
  ELSE
    LET endPos == StringEnd(buffer, pos + 1, FALSE)
        keyValue == SubSeq(buffer, pos + 2, endPos)
    IN IF endPos < Len(buffer)
         THEN [st EXCEPT !.currentKey = keyValue,
                         !.error = KeyRejected(st, keyValue, options),
                         !.thrown = KeyRejection(st, keyValue, options)]
         ELSE st

\* processColon
processColon(st, options) ==
  IF ~st.inObject \/ st.currentKey = <<>> THEN st
  ELSE IF st.currentKey \in st.keysInCurrentObject
    THEN [st EXCEPT !.error = TRUE, !.thrown = "Duplicate key"]
  ELSE [st EXCEPT
          !.keysInCurrentObject = @ \cup {st.currentKey},
          !.pathStack = Append(@, st.currentKey),
          !.currentKey = <<>>,
          !.error = st.objectDepth + st.arrayDepth > OrElse(options.maxDepth, DefaultMaxDepth),
          !.thrown = IF st.objectDepth + st.arrayDepth > OrElse(options.maxDepth, DefaultMaxDepth)
                       THEN "Depth limit exceeded" ELSE ""]

\* one turn of processBuffer's while loop, on the character at zero-based i
StreamChar(st, buffer, i, options) ==
  LET char == buffer[i + 1]
  IN IF st.inString
       THEN IF st.escapeNext THEN [st EXCEPT !.escapeNext = FALSE]
            ELSE IF char = "\\" THEN [st EXCEPT !.escapeNext = TRUE]
            ELSE IF char = "\"" THEN [st EXCEPT !.inString = FALSE]
            ELSE st
     ELSE CASE char = "\"" ->
                 processStringStart([st EXCEPT !.inString = TRUE], buffer, i, options)
            [] char = "{" ->
                 [st EXCEPT !.objectDepth = @ + 1, !.inObject = TRUE,
                            !.keysInCurrentObject = {}]
            [] char = "}" ->
                 LET st1 == IF st.objectDepth > 0
                              THEN [st EXCEPT
                                      !.objectDepth = @ - 1,
                                      !.keysInCurrentObject = {},
                                      !.pathStack = IF Len(@) > 1
                                                      THEN SubSeq(@, 1, Len(@) - 1)
                                                      ELSE @]
                              ELSE st
                 IN [st1 EXCEPT !.completed = st1.objectDepth = 0 /\ st1.arrayDepth = 0]
            [] char = "[" -> [st EXCEPT !.arrayDepth = @ + 1]
            [] char = "]" ->
                 IF st.arrayDepth > 0
                   THEN [st EXCEPT !.arrayDepth = @ - 1,
                                   !.completed = st.objectDepth = 0 /\ st.arrayDepth = 1]
                   ELSE st
            [] char = ":" -> processColon(st, options)
            [] OTHER -> st

RECURSIVE processBuffer(_, _, _, _)
\* the while loop of processBuffer from the zero-based position i on; a throw
\* leaves the state as it was when thrown, with error set
processBuffer(st, buffer, i, options) ==
  IF i >= Len(buffer) \/ st.completed \/ st.error THEN st
  ELSE processBuffer(StreamChar(st, buffer, i, options), buffer, i + 1, options)

\* write(buffer) then end(): the parser's end state; _flush reports an
\* incomplete document as an error
StreamRun(doc, options, pathStack) ==
  LET st == processBuffer(StreamState(pathStack), Serialize(doc), 0, options)
  IN [error |-> st.error \/ ~st.completed, pathStack |-> st.pathStack]

\* buffer.lastIndexOf(c), zero-based, -1 when absent
LastIndexOf(buffer, c) ==
  LET hits == {i \in 1..Len(buffer) : buffer[i] = c}
  IN IF hits = {} THEN -1 ELSE (CHOOSE i \in hits : \A j \in hits : j <= i) - 1

\* what processBuffer keeps of the buffer after a pass that neither completed
\* nor threw (the loop has then run to the end of the buffer)
RetainedBuffer(buffer) ==
  LET indexes == {LastIndexOf(buffer, "{"), LastIndexOf(buffer, "["),
                  LastIndexOf(buffer, ":")}
      lastBraceIndex == CHOOSE x \in indexes : \A y \in indexes : y <= x
  IN IF lastBraceIndex >= 0 THEN SliceFrom(buffer, lastBraceIndex) ELSE <<>>

\* _transform(chunk): the parser's state and buffer after the chunk.  A throw
\* leaves the buffer as appended
transform(st, buffer, chunk, options) ==
  IF st.completed \/ st.error THEN [st |-> st, buffer |-> buffer]
  ELSE
    LET appended == buffer \o chunk
        after == processBuffer(st, appended, 0, options)
    IN IF after.error THEN [st |-> after, buffer |-> appended]
       ELSE IF after.completed THEN [st |-> after, buffer |-> <<>>]
       ELSE [st |-> after, buffer |-> RetainedBuffer(appended)]

\* _flush: the message of the error the stream ends with, "" when it ends well
flush(st) ==
  IF st.error THEN st.thrown
  ELSE IF ~st.completed THEN "Incomplete JSON"
  ELSE ""

(***************************************************************************)
(* The result cache, LRUCache (src/core/parser.ts).  The Map is a sequence *)
(* of entries [key, value, timestamp] in insertion order; a store is the   *)
(* record [cache, maxSize, ttl] of the one process-wide instance.          *)
(***************************************************************************)
CacheIndex(cache, key) ==
  IF \E i \in 1..Len(cache) : cache[i].key = key
    THEN CHOOSE i \in 1..Len(cache) : cache[i].key = key
    ELSE 0

RemoveAt(seq, i) == SubSeq(seq, 1, i - 1) \o SubSeq(seq, i + 1, Len(seq))

\* whether an entry is expired at `now`
Expired(timestamp, ttl, now) == now - timestamp > ttl

\* the entry a hit puts back at the most-recently-used end: the same object,
\* its timestamp as it was
Refreshed(entry, now) == [entry EXCEPT !.timestamp = now]

Promoted(entry, now) == entry

\* LRUCache.get: the value returned (Null is JavaScript's null) and the Map after
LRUGet(cache, ttl, key, now) ==
  LET i == CacheIndex(cache, key)
  IN IF i = 0 THEN [value |-> Null, cache |-> cache]
     ELSE IF Expired(cache[i].timestamp, ttl, now)
       THEN [value |-> Null, cache |-> RemoveAt(cache, i)]
     ELSE [value |-> cache[i].value,
           cache |-> Append(RemoveAt(cache, i), Promoted(cache[i], now))]

\* LRUCache.set
LRUSet(cache, maxSize, key, value, now) ==
  LET kept == IF Len(cache) >= maxSize /\ Len(cache) > 0 THEN Tail(cache) ELSE cache
      i == CacheIndex(kept, key)
      entry == [key |-> key, value |-> value, timestamp |-> now]
  IN IF i = 0 THEN Append(kept, entry) ELSE [kept EXCEPT ![i] = entry]

(***************************************************************************)
(* The entry points (src/core/parser.ts).                                  *)
(***************************************************************************)
\* the body size check that opens both entry points
ExceedsBodyLimitOffByOne(doc, options) ==
  /\ options.maxBodySizeBytes # {}
  /\ ByteLength(doc) > OrElse(options.maxBodySizeBytes, 0) + 1

ExceedsBodyLimit(doc, options) ==
  /\ options.maxBodySizeBytes # {}
  /\ ByteLength(doc) > OrElse(options.maxBodySizeBytes, 0)

\* the handlers a failure invokes, in order
HandlersOnErrorFirst(code) ==
  CASE code = "STRICT_JSON_DUPLICATE_KEY" -> <<"onError", "onDuplicateKey">>
    [] code = "STRICT_JSON_BODY_TOO_LARGE" -> <<"onError", "onBodyTooLarge">>
    [] code = "STRICT_JSON_PROTOTYPE_POLLUTION" -> <<"onError", "onPrototypePollution">>
    [] code = "STRICT_JSON_DEPTH_LIMIT" -> <<"onError">>
    [] OTHER -> <<"onError", "onInvalidJson">>

HandlersFor(code) ==
  CASE code = "STRICT_JSON_DUPLICATE_KEY" -> <<"onDuplicateKey", "onError">>
    [] code = "STRICT_JSON_BODY_TOO_LARGE" -> <<"onBodyTooLarge", "onError">>
    [] code = "STRICT_JSON_PROTOTYPE_POLLUTION" -> <<"onPrototypePollution", "onError">>
    [] code = "STRICT_JSON_DEPTH_LIMIT" -> <<"onError">>
    [] OTHER -> <<"onInvalidJson", "onError">>

\* invokeErrorHandlerSync / invokeErrorHandlerAsync: what the call adds to
\* the record of handler invocations (nothing when the handler is undefined)
InvokeHandler(options, name, error) ==
  IF options[name] = {} THEN <<>>
  ELSE <<[handler |-> name, behaviour |-> OrElse(options[name], "ok"), code |-> error.code,
          error |-> error]>>

RECURSIVE InvokeHandlers(_, _, _)
InvokeHandlers(options, names, error) ==
  IF names = <<>> THEN <<>>
  ELSE InvokeHandler(options, Head(names), error)
         \o InvokeHandlers(options, Tail(names), error)

Returned(value, mode) ==
  [kind |-> "value", value |-> value, error |-> NoError, mode |-> mode, handlers |-> <<>>]

\* a handler that throws, or whose promise rejects
HandlerFails(behaviour) == behaviour \in {"throw", "reject"}

\* what a failing handler throws: not a StrictJsonError
HandlerError == StrictJsonError("", "handler failed", <<>>, <<>>, <<>>, -1, -1)

\* the try/catch around the handler call: "just ignore handler errors"
HandlerErrorEscapes == FALSE

HandlerErrorCaught == TRUE

\* the error the caller gets after the handlers were invoked
Raised(error, handlers) ==
  IF \E i \in 1..Len(handlers) : HandlerFails(handlers[i].behaviour) /\ ~HandlerErrorCaught
    THEN HandlerError
    ELSE error

Thrown(error, mode, handlers) ==
  [kind |-> "error", value |-> Null, error |-> Raised(error, handlers), mode |-> mode,
   handlers |-> handlers]

\* a probe that decodes and stores the text on a miss, before any validation
ProbeCacheStoring(doc, options, st, now) ==
  IF options.enableCache = {FALSE} THEN [hit |-> FALSE, value |-> Null, st |-> st]
  ELSE
    LET maxSize == OrElse(options.cacheSize, DEFAULT_CACHE_SIZE)
        ttl == OrElse(options.cacheTTL, DEFAULT_CACHE_TTL)
        got == LRUGet(st.cache, ttl, Serialize(doc), now)
    IN [hit |-> got.value # Null, value |-> got.value,
        st |-> [cache |-> IF got.value # Null THEN got.cache
                          ELSE LRUSet(got.cache, maxSize, Serialize(doc), Null, now),
                maxSize |-> maxSize, ttl |-> ttl]]

\* the cache probe: configures the cache and looks the text up
ProbeCache(doc, options, st, now) ==
  IF options.enableCache = {FALSE} THEN [hit |-> FALSE, value |-> Null, st |-> st]
  ELSE
    LET maxSize == OrElse(options.cacheSize, DEFAULT_CACHE_SIZE)
        ttl == OrElse(options.cacheTTL, DEFAULT_CACHE_TTL)
        got == LRUGet(st.cache, ttl, Serialize(doc), now)
    IN [hit |-> got.value # Null, value |-> got.value,
        st |-> [cache |-> got.cache, maxSize |-> maxSize, ttl |-> ttl]]

\* "Cache the result"
StoreResult(doc, options, st, value, now) ==
  IF options.enableCache = {FALSE} THEN st
  ELSE [st EXCEPT !.cache = LRUSet(st.cache, st.maxSize, Serialize(doc), value, now)]

\* whether lazy mode is used for this input
shouldUseLazyMode(doc, options) ==
  \/ options.lazyMode = {TRUE}
  \/ ByteLength(doc) >= OrElse(options.lazyModeThreshold, DefaultThreshold)

\* the options handed to the walker
effectiveOptions(doc, options) ==
  IF shouldUseLazyMode(doc, options)
    THEN [options EXCEPT
            !.lazyMode = {TRUE},
            !.lazyModeDepthLimit = {OrElse(options.lazyModeDepthLimit, DefaultLazyModeDepthLimit)},
            !.lazyModeSkipPrototype = {OrElse(options.lazyModeSkipPrototype, TRUE)},
            !.lazyModeSkipWhitelist = {OrElse(options.lazyModeSkipWhitelist, TRUE)},
            !.lazyModeSkipBlacklist = {OrElse(options.lazyModeSkipBlacklist, FALSE)}]
    ELSE options

\* the full path: walk, then JSON.parse.  [error] is NoError on success
ValidateFull(doc, options) ==
  LET w == findDuplicateKeysInJson(doc, effectiveOptions(doc, options))
  IN IF w.kind = "duplicate"
       THEN [ok |-> FALSE, value |-> Null, error |-> DuplicateKeyError(w.path, w.key)]
     ELSE IF w.kind = "throw"
       THEN [ok |-> FALSE, value |-> Null, error |-> w.error]
     ELSE IF doc.type = "invalid"
       THEN [ok |-> FALSE, value |-> Null, error |-> InvalidJsonError("Invalid JSON")]
     ELSE [ok |-> TRUE, value |-> Decode(doc), error |-> NoError]

\* parseStrictJson(raw, options) called at `now` with the cache in state st:
\* what it returns or throws, and the cache after
parseStrictJson(doc, options, st, now) ==
  IF ExceedsBodyLimit(doc, options)
    THEN [outcome |-> Thrown(BodyTooLargeError, "size",
                             InvokeHandlers(options, HandlersFor(BodyTooLargeError.code),
                                            BodyTooLargeError)),
          st |-> st]
  ELSE
    LET probe == ProbeCache(doc, options, st, now)
        useStreaming == shouldUseStreamingForPayload(doc, options)
        fast == parseWithFastPath(doc, options)
        full == ValidateFull(doc, options)
    IN IF probe.hit
         THEN [outcome |-> Returned(probe.value, "cache"), st |-> probe.st]
       ELSE IF options.enableFastPath = {TRUE} /\ ~useStreaming /\ fast.ok
         THEN [outcome |-> Returned(fast.value, "fast"),
               st |-> StoreResult(doc, options, probe.st, fast.value, now)]
       ELSE IF useStreaming
         THEN IF doc.type = "invalid"
                THEN [outcome |-> Thrown(InvalidJsonError("Invalid JSON"), "stream",
                                         InvokeHandlers(options,
                                                        HandlersFor("STRICT_JSON_INVALID_JSON"),
                                                        InvalidJsonError("Invalid JSON"))),
                      st |-> probe.st]
                ELSE [outcome |-> Returned(Decode(doc), "stream"),
                      st |-> StoreResult(doc, options, probe.st, Decode(doc), now)]
       ELSE IF full.ok
         THEN [outcome |-> Returned(full.value, "full"),
               st |-> StoreResult(doc, options, probe.st, full.value, now)]
       ELSE [outcome |-> Thrown(full.error, "full",
                                InvokeHandlers(options, HandlersFor(full.error.code),
                                               full.error)),
             st |-> probe.st]

(***************************************************************************)
(* The state machine.                                                      *)
(***************************************************************************)
VARIABLES
  cache,      \* parseCache.cache: the Map, as a sequence of entries
  maxSize,    \* parseCache.maxSize
  ttl,        \* parseCache.ttl
  now,        \* Date.now()
  pathStack,  \* INITIAL_STATE.pathStack of the streaming parser
  pending,    \* the suspended parseStrictJsonAsync calls
  last        \* the call that completed last: its input and its outcome

vars == <<cache, maxSize, ttl, now, pathStack, pending, last>>

Store == [cache |-> cache, maxSize |-> maxSize, ttl |-> ttl]

NoOutcome ==
  [kind |-> "none", value |-> Null, error |-> NoError, mode |-> "", handlers |-> <<>>]

Completed(api, doc, options, outcome) ==
  [n |-> 1 - last.n, api |-> api, doc |-> doc, options |-> options, outcome |-> outcome]

Init ==
  /\ cache = <<>>
  /\ maxSize = DEFAULT_CACHE_SIZE
  /\ ttl = DEFAULT_CACHE_TTL
  /\ now = 0
  /\ pathStack = <<<<"$">>>>
  /\ pending = <<>>
  /\ last = [n |-> 0, api |-> "none", doc |-> Null, options |-> NoOptions,
             outcome |-> NoOutcome]

\* a call of parseStrictJson
ParseSync(doc, options) ==
  \E r \in {parseStrictJson(doc, options, Store, now)} :
     /\ cache' = r.st.cache
     /\ maxSize' = r.st.maxSize
     /\ ttl' = r.st.ttl
     /\ last' = Completed("sync", doc, options, r.outcome)
     /\ UNCHANGED <<now, pathStack, pending>>

\* clearParseCache()
ClearCache ==
  /\ cache' = <<>>
  /\ UNCHANGED <<maxSize, ttl, now, pathStack, pending, last>>

\* obj after the assignment obj[key] = v
Assigned(obj, key, v) ==
  IF \E i \in 1..Len(obj.children) : obj.children[i].key = key
    THEN Obj([i \in 1..Len(obj.children) |->
                IF obj.children[i].key = key THEN Prop(key, v) ELSE obj.children[i]])
    ELSE Obj(Append(obj.children, Prop(key, v)))

\* the caller of the call that completed last assigns a property of the
\* object it was returned: result[key] = v.  With the cache on, the object a
\* call returns is the object the entry of its text holds: a hit returns
\* entry.value itself and a miss stores the result it returns
CallerMutates(key, v) ==
  /\ last.api = "sync"
  /\ last.outcome.kind = "value"
  /\ last.outcome.value.type = "object"
  /\ last.options.enableCache # {FALSE}
  /\ CacheIndex(cache, Serialize(last.doc)) # 0
  /\ cache' = [cache EXCEPT ![CacheIndex(cache, Serialize(last.doc))].value =
                                Assigned(@, key, v)]
  /\ UNCHANGED <<maxSize, ttl, now, pathStack, pending, last>>

\* time passes
Tick ==
  /\ now < MaxTime
  /\ now' = now + 1
  /\ UNCHANGED <<cache, maxSize, ttl, pathStack, pending, last>>

\* the body of the cleanup interval: the entries it leaves in the Map when it
\* runs at the time `at`
Swept(entries, at) ==
  SelectSeq(entries, LAMBDA entry : ~(at - entry.timestamp > DEFAULT_CACHE_TTL))

\* the step by which the clock moves between two calls when minutes pass
ElapseStep == SweepInterval \div 6

\* minutes pass, and the clock does not reach a multiple of the interval
Elapse ==
  /\ now < MaxSweeps * SweepInterval
  /\ (now + ElapseStep) % SweepInterval # 0
  /\ now' = now + ElapseStep
  /\ UNCHANGED <<cache, maxSize, ttl, pathStack, pending, last>>

\* the clock reaches a multiple of the interval and the setInterval callback runs
CleanupInterval ==
  /\ now < MaxSweeps * SweepInterval
  /\ (now + ElapseStep) % SweepInterval = 0
  /\ now' = now + ElapseStep
  /\ cache' = Swept(cache, now')
  /\ UNCHANGED <<maxSize, ttl, pathStack, pending, last>>

\* a StreamingJsonParser being written to: its state (whose pathStack is the
\* array of INITIAL_STATE, the variable pathStack), its buffer, the text still
\* to be written, the number of chunks written, and pathStack as it was when
\* the parser was constructed
StreamingJsonParser(doc, options, st, buffer, rest, chunks, opened) ==
  [stage |-> "writing", doc |-> doc, options |-> options, st |-> st, buffer |-> buffer,
   rest |-> rest, chunks |-> chunks, opened |-> opened]

\* new StreamingJsonParser(options), to be written the text of doc
NewParser(doc, options, stack) ==
  StreamingJsonParser(doc, options, StreamState(stack), <<>>, Serialize(doc), 0, stack)

\* new StreamingJsonParser(options)
StreamOpen(doc, options) ==
  /\ Len(pending) < MaxPending
  /\ Len(pathStack) <= MaxPathStack
  /\ pending' = Append(pending, NewParser(doc, options, pathStack))
  /\ UNCHANGED <<cache, maxSize, ttl, now, pathStack, last>>

\* parser.write(chunk) with the next n characters of the text; the last of
\* MaxChunks chunks takes all that is left
StreamWrite(i, n) ==
  LET p == pending[i]
      r == transform([p.st EXCEPT !.pathStack = pathStack], p.buffer,
                     SubSeq(p.rest, 1, n), p.options)
  IN /\ p.rest # <<>>
     /\ n \in 1..Len(p.rest)
     /\ p.chunks + 1 < MaxChunks \/ n = Len(p.rest)
     /\ pending' = [pending EXCEPT ![i] =
                      [p EXCEPT !.st = r.st, !.buffer = r.buffer,
                                !.rest = SliceFrom(p.rest, n), !.chunks = @ + 1]]
     /\ pathStack' = r.st.pathStack
     /\ UNCHANGED <<cache, maxSize, ttl, now, last>>

\* parser.end(): the stream ends well or with an error; the parser's final
\* state is kept with the result
StreamEnd(i) ==
  LET p == pending[i]
      message == flush(p.st)
  IN /\ p.rest = <<>>
     /\ pending' = RemoveAt(pending, i)
     /\ last' = [n |-> 1 - last.n, api |-> "parser", doc |-> p.doc, options |-> p.options,
                 outcome |-> IF message = "" THEN Returned(Null, "parser")
                             ELSE Thrown(PlainError(message), "parser", <<>>),
                 parser |-> p]
     /\ UNCHANGED <<cache, maxSize, ttl, now, pathStack>>

\* a suspended call of parseStrictJsonAsync
Suspended(doc, options, stage, mode, error, rest, streamError, handlers) ==
  [doc |-> doc, options |-> options, stage |-> stage, mode |-> mode, error |-> error,
   rest |-> rest, streamError |-> streamError, handlers |-> handlers]

\* the call fails with `error`: the first handler is invoked and awaited
AwaitHandlers(doc, options, mode, error) ==
  LET names == HandlersFor(error.code)
  IN Suspended(doc, options, "handlers", mode, error, Tail(names), FALSE,
               InvokeHandler(options, Head(names), error))

\* a call of parseStrictJsonAsync, up to its first await or its return
AsyncStart(doc, options) ==
  /\ Len(pending) < MaxPending
  /\ IF ExceedsBodyLimit(doc, options)
       THEN /\ pending' = Append(pending, AwaitHandlers(doc, options, "size", BodyTooLargeError))
            /\ UNCHANGED <<cache, maxSize, ttl, now, pathStack, last>>
     ELSE
       LET probe == ProbeCache(doc, options, Store, now)
           useStreaming == shouldUseStreamingForPayload(doc, options)
           fast == parseWithFastPath(doc, options)
           full == ValidateFull(doc, options)
           stream == StreamRun(doc, options, pathStack)
           done(value, mode) ==
             LET st == StoreResult(doc, options, probe.st, value, now)
             IN /\ cache' = st.cache
                /\ maxSize' = st.maxSize
                /\ ttl' = st.ttl
                /\ last' = Completed("async", doc, options, Returned(value, mode))
                /\ UNCHANGED <<now, pathStack, pending>>
           suspend(p, stack) ==
             /\ cache' = probe.st.cache
             /\ maxSize' = probe.st.maxSize
             /\ ttl' = probe.st.ttl
             /\ pending' = Append(pending, p)
             /\ pathStack' = stack
             /\ UNCHANGED <<now, last>>
       IN IF probe.hit
            THEN /\ cache' = probe.st.cache
                 /\ maxSize' = probe.st.maxSize
                 /\ ttl' = probe.st.ttl
                 /\ last' = Completed("async", doc, options, Returned(probe.value, "cache"))
                 /\ UNCHANGED <<now, pathStack, pending>>
          ELSE IF options.enableFastPath = {TRUE} /\ ~useStreaming /\ fast.ok
            THEN done(fast.value, "fast")
          ELSE IF useStreaming
            THEN /\ Len(pathStack) <= MaxPathStack
                 /\ suspend(Suspended(doc, options, "stream", "stream", NoError, <<>>,
                                      stream.error \/ doc.type = "invalid", <<>>),
                            stream.pathStack)
          ELSE IF full.ok
            THEN done(full.value, "full")
          ELSE suspend(AwaitHandlers(doc, options, "full", full.error), pathStack)

\* a suspended call goes on: after parseLargePayload settled, or after the
\* handler awaited last
AsyncResume(i) ==
  LET p == pending[i]
      others == RemoveAt(pending, i)
  IN IF p.stage = "stream" /\ ~p.streamError
       THEN /\ cache' = StoreResult(p.doc, p.options, Store, Decode(p.doc), now).cache
            /\ pending' = others
            /\ last' = Completed("async", p.doc, p.options, Returned(Decode(p.doc), p.mode))
            /\ UNCHANGED <<maxSize, ttl, now, pathStack>>
     ELSE IF p.stage = "stream"
       THEN /\ pending' = [pending EXCEPT ![i] =
                             AwaitHandlers(p.doc, p.options, p.mode,
                                           InvalidJsonError("Invalid JSON"))]
            /\ UNCHANGED <<cache, maxSize, ttl, now, pathStack, last>>
     ELSE IF p.rest # <<>>
       THEN /\ pending' = [pending EXCEPT ![i] =
                             [p EXCEPT !.rest = Tail(p.rest),
                                       !.handlers = @ \o InvokeHandler(p.options, Head(p.rest),
                                                                       p.error)]]
            /\ UNCHANGED <<cache, maxSize, ttl, now, pathStack, last>>
     ELSE /\ pending' = others
          /\ last' = Completed("async", p.doc, p.options, Thrown(p.error, p.mode, p.handlers))
          /\ UNCHANGED <<cache, maxSize, ttl, now, pathStack>>

(***************************************************************************)
(* The inputs.                                                             *)
(***************************************************************************)
One == Num(1)

Two == Num(2)

\* the documents without nesting around them
Leaves ==
  { One,
    Obj(<<Prop(KeyA, One), Prop(KeyB, Two)>>),
    Obj(<<Prop(KeyA, One), Prop(KeyA, Two)>>),
    Obj(<<Prop(KeyA, One), Prop(KeyA, Two), Prop(KeyB, One), Prop(KeyB, Two)>>) }

\* the ways a document is nested in a larger one
Wrap(c) ==
  { Obj(<<Prop(KeyA, c)>>),
    Arr(<<c>>),
    Obj(<<Prop(KeyA, c), Prop(KeyB, c)>>),
    Obj(<<Prop(KeyB, One), Prop(KeyA, c), Prop(KeyB, Two)>>),
    Obj(<<Prop(KeyProto, c)>>),
    Arr(<<Obj(<<Prop(KeyA, One), Prop(KeyB, Two)>>), c>>) }

RECURSIVE Docs(_)
\* the documents with at most n levels of nesting around a leaf
Docs(n) ==
  IF n = 0 THEN Leaves
  ELSE Leaves \cup UNION {Wrap(c) : c \in Docs(n - 1)}

WalkDocs == Docs(MaxNest) \cup {Invalid}

Uncached == [NoOptions EXCEPT !.enableCache = {FALSE}]

Policies ==
  { [whitelist |-> {}, blacklist |-> {}],
    [whitelist |-> {}, blacklist |-> {<<KeyB>>}],
    [whitelist |-> {<<KeyA>>}, blacklist |-> {}],
    [whitelist |-> {<<>>}, blacklist |-> {}] }

\* normal mode: the checks a caller configures
NormalOpts ==
  { [Uncached EXCEPT !.enablePrototypePollutionProtection = prot,
                     !.dangerousKeys = dk,
                     !.whitelist = pol.whitelist, !.blacklist = pol.blacklist,
                     !.maxDepth = md] :
      prot \in {{}, {FALSE}}, dk \in {{}, {<<KeyB>>}}, pol \in Policies,
      md \in {{}, {SmallDepth}} }

\* lazy mode asked for by the caller
LazyOpts ==
  { [Uncached EXCEPT !.lazyMode = {TRUE},
                     !.lazyModeDepthLimit = dl,
                     !.lazyModeSkipPrototype = sp,
                     !.lazyModeSkipBlacklist = sb,
                     !.blacklist = bl,
                     !.maxDepth = md] :
      dl \in {{}, {SmallLazyDepth}}, sp \in {{}, {FALSE}}, sb \in {{}, {TRUE}},
      bl \in {{}, {<<KeyB>>}}, md \in {{}, {SmallDepth}} }

\* the size thresholds and the fast path
ModeOpts ==
  { [Uncached EXCEPT !.lazyModeThreshold = lt, !.lazyMode = lm,
                     !.streamingThreshold = sth, !.enableStreaming = es,
                     !.enableFastPath = fp] :
      lt \in {{}, {SmallThreshold}}, lm \in {{}, {FALSE}},
      sth \in {{}, {SmallThreshold}}, es \in {{}, {FALSE}}, fp \in {{}, {TRUE}} }

WalkOpts == NormalOpts \cup LazyOpts \cup ModeOpts

\* the walker as a function of its input: the initial state holds a call
\* about to be made, with every document and every option record
InitWalk ==
  /\ cache = <<>>
  /\ maxSize = DEFAULT_CACHE_SIZE
  /\ ttl = DEFAULT_CACHE_TTL
  /\ now = 0
  /\ pathStack = <<<<"$">>>>
  /\ pending = <<>>
  /\ \E doc \in WalkDocs, options \in WalkOpts :
       last = [n |-> 0, api |-> "none", doc |-> doc, options |-> options,
               outcome |-> NoOutcome]

NextWalk == last.api = "none" /\ ParseSync(last.doc, last.options)

SpecWalk == InitWalk /\ [][NextWalk]_vars

\* the documents of the cache's behaviours: the literal null, a small object
\* and an object large enough to be streamed
ObjB == Obj(<<Prop(KeyB, One)>>)

BigDoc == Obj(<<Prop(KeyA, Obj(<<Prop(KeyA, One), Prop(KeyB, Two)>>))>>)

CacheDocs == {Null, ObjB, BigDoc}

CacheOpts ==
  { NoOptions,
    [NoOptions EXCEPT !.cacheSize = {SmallCache}],
    [NoOptions EXCEPT !.cacheTTL = {SmallTTL}],
    [NoOptions EXCEPT !.blacklist = {<<KeyB>>}],
    [NoOptions EXCEPT !.streamingThreshold = {SmallThreshold}] }

\* the process: calls of both entry points, suspended calls going on, the
\* cache cleared, time passing
Next ==
  \/ \E doc \in CacheDocs, options \in CacheOpts : ParseSync(doc, options)
  \/ \E doc \in CacheDocs, options \in CacheOpts : AsyncStart(doc, options)
  \/ \E i \in 1..Len(pending) : AsyncResume(i)
  \/ ClearCache
  \/ Tick

Spec == Init /\ [][Next]_vars

\* the size check: inputs on both sides of the limit, valid or not, with the
\* cache on and off
SizeDocs == {One, ObjB, Invalid}

SizeOpts ==
  { [o EXCEPT !.maxBodySizeBytes = mb] :
      o \in {NoOptions, Uncached, [NoOptions EXCEPT !.enableFastPath = {TRUE}]},
      mb \in {{}, {SmallBody}} }

NextSize ==
  \/ \E doc \in SizeDocs, options \in SizeOpts : ParseSync(doc, options)
  \/ \E doc \in SizeDocs, options \in SizeOpts : AsyncStart(doc, options)
  \/ \E i \in 1..Len(pending) : AsyncResume(i)

SpecSize == Init /\ [][NextSize]_vars


\* the same input parsed twice in a row under the same options, by either
\* entry point, with no time passing in between
TwiceDocs ==
  { Null, One, ObjB, BigDoc, Arr(<<One>>), Arr(<<Null>>),
    Obj(<<Prop(KeyA, One), Prop(KeyA, Two)>>), Invalid }

TwiceOpts ==
  { NoOptions, Uncached,
    [NoOptions EXCEPT !.cacheSize = {SmallCache}],
    [NoOptions EXCEPT !.cacheTTL = {SmallTTL}],
    [NoOptions EXCEPT !.enableFastPath = {TRUE}],
    [NoOptions EXCEPT !.streamingThreshold = {SmallThreshold}] }

InitTwice ==
  /\ cache \in {<<>>, <<[key |-> Serialize(Two), value |-> Two, timestamp |-> 0]>>}
  /\ maxSize = DEFAULT_CACHE_SIZE
  /\ ttl = DEFAULT_CACHE_TTL
  /\ now = 0
  /\ pathStack = <<<<"$">>>>
  /\ pending = <<>>
  /\ \E doc \in TwiceDocs, options \in TwiceOpts :
       last = [n |-> 0, api |-> "none", doc |-> doc, options |-> options,
               outcome |-> NoOutcome]

SecondCallDue == pending = <<>> /\ (last.api = "none" \/ last.n = 1)

NextTwice ==
  \/ SecondCallDue /\ ParseSync(last.doc, last.options)
  \/ SecondCallDue /\ AsyncStart(last.doc, last.options)
  \/ \E i \in 1..Len(pending) : AsyncResume(i)

SpecTwice == InitTwice /\ [][NextTwice]_vars

\* expiry: calls of parseStrictJson under two time-to-live settings while time
\* passes
TTLDocs == {Null, One, ObjB}

TTLOpts == {NoOptions, Uncached, [NoOptions EXCEPT !.cacheTTL = {SmallTTL}]}

NextTTL ==
  \/ \E doc \in TTLDocs, options \in TTLOpts : ParseSync(doc, options)
  \/ Tick

SpecTTL == Init /\ [][NextTTL]_vars

\* one call of either entry point, on inputs that fail in every way and on
\* inputs that succeed, under every setting of the error handlers
Deep == Arr(<<Arr(<<Arr(<<Arr(<<One>>)>>)>>)>>)

CallDocs == Docs(1) \cup {Null, Invalid, Deep}

CallOpts ==
  { NoOptions, Uncached,
    [Uncached EXCEPT !.blacklist = {<<KeyB>>}],
    [Uncached EXCEPT !.whitelist = {<<KeyA>>}],
    [Uncached EXCEPT !.maxDepth = {SmallDepth}],
    [Uncached EXCEPT !.maxBodySizeBytes = {SmallBody}],
    [Uncached EXCEPT !.streamingThreshold = {SmallThreshold}],
    [Uncached EXCEPT !.streamingThreshold = {SmallThreshold}, !.blacklist = {<<KeyB>>}],
    [Uncached EXCEPT !.enableFastPath = {TRUE}],
    [Uncached EXCEPT !.lazyMode = {TRUE}, !.lazyModeDepthLimit = {SmallLazyDepth}] }

\* handler settings: for each handler, undefined or how it behaves
HandlerSettings ==
  { [onDuplicateKey |-> s, onInvalidJson |-> s, onBodyTooLarge |-> s,
     onPrototypePollution |-> s, onError |-> e] :
      s \in {{}, {"ok"}, {"throw"}, {"reject"}}, e \in {{}, {"ok"}, {"throw"}} }

WithHandlers(options, h) ==
  [options EXCEPT !.onDuplicateKey = h.onDuplicateKey, !.onInvalidJson = h.onInvalidJson,
                  !.onBodyTooLarge = h.onBodyTooLarge,
                  !.onPrototypePollution = h.onPrototypePollution, !.onError = h.onError]

InitCalls ==
  /\ cache = <<>>
  /\ maxSize = DEFAULT_CACHE_SIZE
  /\ ttl = DEFAULT_CACHE_TTL
  /\ now = 0
  /\ pathStack = <<<<"$">>>>
  /\ pending = <<>>
  /\ \E doc \in CallDocs, options \in CallOpts, h \in HandlerSettings :
       last = [n |-> 0, api |-> "none", doc |-> doc, options |-> WithHandlers(options, h),
               outcome |-> NoOutcome]

CallDue == last.api = "none" /\ pending = <<>>

NextCalls ==
  \/ CallDue /\ ParseSync(last.doc, last.options)
  \/ CallDue /\ AsyncStart(last.doc, last.options)
  \/ \E i \in 1..Len(pending) : AsyncResume(i)

SpecCalls == InitCalls /\ [][NextCalls]_vars

\* the fast path: one call of parseStrictJson with enableFastPath, with the
\* built-in and with a caller's dangerous keys, protection on and off
FastOpts ==
  { [Uncached EXCEPT !.enableFastPath = {TRUE},
                     !.enablePrototypePollutionProtection = prot,
                     !.dangerousKeys = dk] :
      prot \in {{}, {FALSE}}, dk \in {{}, {<<KeyB>>}, {<<KeyProto, KeyB>>}} }

InitFast ==
  /\ cache = <<>>
  /\ maxSize = DEFAULT_CACHE_SIZE
  /\ ttl = DEFAULT_CACHE_TTL
  /\ now = 0
  /\ pathStack = <<<<"$">>>>
  /\ pending = <<>>
  /\ \E doc \in WalkDocs, options \in FastOpts :
       last = [n |-> 0, api |-> "none", doc |-> doc, options |-> options,
               outcome |-> NoOutcome]

SpecFast == InitFast /\ [][NextWalk]_vars

\* the key policy: one call of parseStrictJson with an allow-list and a
\* deny-list of exact and wildcard patterns over the paths of the document
Star == <<"*">>

PathAB == <<"a", ".", "b">>

UnderA == <<"a", ".", "*">>

AnyB == <<"*", ".", "b">>

AllowLists ==
  { <<KeyA>>, <<Star>>, <<KeyA, Star>>, <<UnderA>>, <<KeyA, UnderA>>,
    <<PathAB>>, <<AnyB>>, <<KeyA, AnyB>>, <<KeyA, KeyB>> }

DenyLists == { <<KeyB>>, <<KeyA>>, <<PathAB>>, <<AnyB>>, <<Star>>, <<UnderA>> }

PolicyOpts ==
  { [Uncached EXCEPT !.whitelist = {wl}, !.blacklist = bl] :
      wl \in AllowLists, bl \in {{}} \cup {{dl} : dl \in DenyLists} }

InitPolicy ==
  /\ cache = <<>>
  /\ maxSize = DEFAULT_CACHE_SIZE
  /\ ttl = DEFAULT_CACHE_TTL
  /\ now = 0
  /\ pathStack = <<<<"$">>>>
  /\ pending = <<>>
  /\ \E doc \in Docs(1), options \in PolicyOpts :
       last = [n |-> 0, api |-> "none", doc |-> doc, options |-> options,
               outcome |-> NoOutcome]

SpecPolicy == InitPolicy /\ [][NextWalk]_vars

\* the empty allow-list: one call of parseStrictJson with whitelist = [],
\* on documents with and without keys, some of them nested beyond the depth
\* limit before or after their first key
RECURSIVE Nested(_, _)
Nested(n, c) == IF n = 0 THEN c ELSE Arr(<<Nested(n - 1, c)>>)

ObjA == Obj(<<Prop(KeyA, One)>>)

EmptyAllowDocs ==
  Docs(1) \cup
  { Null, Arr(<<>>), Obj(<<>>), Invalid,
    Nested(SmallDepth + 1, One),
    Nested(SmallDepth + 1, ObjA),
    Obj(<<Prop(KeyA, Nested(SmallDepth + 1, One))>>),
    Arr(<<Nested(SmallDepth + 1, One), ObjA>>) }

EmptyAllowOpts ==
  { [Uncached EXCEPT !.whitelist = {<<>>}, !.blacklist = bl, !.maxDepth = md,
                     !.enablePrototypePollutionProtection = prot] :
      bl \in {{}, {<<>>}, {<<KeyB>>}}, md \in {{}, {SmallDepth}},
      prot \in {{}, {FALSE}} }

InitEmptyAllow ==
  /\ cache = <<>>
  /\ maxSize = DEFAULT_CACHE_SIZE
  /\ ttl = DEFAULT_CACHE_TTL
  /\ now = 0
  /\ pathStack = <<<<"$">>>>
  /\ pending = <<>>
  /\ \E doc \in EmptyAllowDocs, options \in EmptyAllowOpts :
       last = [n |-> 0, api |-> "none", doc |-> doc, options |-> options,
               outcome |-> NoOutcome]

SpecEmptyAllow == InitEmptyAllow /\ [][NextWalk]_vars

\* lazy mode with an allow-list: one call of parseStrictJson with lazyMode,
\* under every setting of lazyModeSkipWhitelist and lazyModeSkipBlacklist
LazyPolicyOpts ==
  { [Uncached EXCEPT !.lazyMode = {TRUE},
                     !.lazyModeSkipWhitelist = sw,
                     !.lazyModeSkipBlacklist = sb,
                     !.whitelist = {<<KeyA>>},
                     !.blacklist = bl] :
      sw \in {{}, {TRUE}, {FALSE}}, sb \in {{}, {TRUE}, {FALSE}},
      bl \in {{}, {<<KeyB>>}} }

InitLazyPolicy ==
  /\ cache = <<>>
  /\ maxSize = DEFAULT_CACHE_SIZE
  /\ ttl = DEFAULT_CACHE_TTL
  /\ now = 0
  /\ pathStack = <<<<"$">>>>
  /\ pending = <<>>
  /\ \E doc \in Docs(1), options \in LazyPolicyOpts :
       last = [n |-> 0, api |-> "none", doc |-> doc, options |-> options,
               outcome |-> NoOutcome]

SpecLazyPolicy == InitLazyPolicy /\ [][NextWalk]_vars

\* the allow-list alone: one call of parseStrictJson with an allow-list of
\* exact patterns and of patterns with a wildcard at the end, at the start
\* and in the middle, on documents three keys deep
MidStar == <<"a", ".", "*", ".", "b">>

UnderAStarStar == <<"a", ".", "*", "*">>

ObjAB(x, y) == Obj(<<Prop(KeyA, x), Prop(KeyB, y)>>)

GlobDocs ==
  Docs(1) \cup
  { ObjAB(ObjAB(ObjAB(One, Two), ObjAB(One, Two)), ObjAB(One, Two)),
    ObjAB(ObjAB(One, ObjAB(One, Two)), One),
    ObjAB(Arr(<<ObjAB(One, Two)>>), One),
    Obj(<<Prop(KeyA, ObjAB(ObjAB(One, Two), One))>>) }

GlobAllowLists ==
  { <<KeyA>>, <<PathAB>>, <<Star>>, <<UnderA>>, <<AnyB>>, <<MidStar>>,
    <<UnderAStarStar>>, <<KeyA, MidStar>>, <<KeyB, MidStar>>, <<KeyA, KeyB>> }

GlobOpts == { [Uncached EXCEPT !.whitelist = {wl}] : wl \in GlobAllowLists }

InitGlob ==
  /\ cache = <<>>
  /\ maxSize = DEFAULT_CACHE_SIZE
  /\ ttl = DEFAULT_CACHE_TTL
  /\ now = 0
  /\ pathStack = <<<<"$">>>>
  /\ pending = <<>>
  /\ \E doc \in GlobDocs, options \in GlobOpts :
       last = [n |-> 0, api |-> "none", doc |-> doc, options |-> options,
               outcome |-> NoOutcome]

SpecGlob == InitGlob /\ [][NextWalk]_vars

\* what gets stored: calls of both entry points that succeed and that fail
\* in the size check, in the walker and in the decoder, with the cache on
DupDoc == Obj(<<Prop(KeyA, One), Prop(KeyA, Two)>>)

StoreDocs == {One, ObjB, DupDoc, Invalid}

StoreOpts ==
  { NoOptions,
    [NoOptions EXCEPT !.blacklist = {<<KeyB>>}],
    [NoOptions EXCEPT !.enableFastPath = {TRUE}],
    [NoOptions EXCEPT !.maxBodySizeBytes = {SmallBody}] }

NextStore ==
  \/ \E doc \in StoreDocs, options \in StoreOpts : ParseSync(doc, options)
  \/ \E doc \in StoreDocs, options \in StoreOpts : AsyncStart(doc, options)
  \/ \E i \in 1..Len(pending) : AsyncResume(i)

SpecStore == Init /\ [][NextStore]_vars

\* the background sweep: calls of parseStrictJson under the default, a longer
\* and a shorter time-to-live while minutes pass and the cleanup interval
\* fires.  (In the other specifications the clock stays within MaxTime
\* milliseconds of the start, where the interval is never due.)
LongTTL == 2 * DEFAULT_CACHE_TTL

SweepDocs == {One, ObjB}

SweepOpts ==
  { NoOptions,
    [NoOptions EXCEPT !.cacheTTL = {LongTTL}],
    [NoOptions EXCEPT !.cacheTTL = {SmallTTL}] }

NextSweep ==
  \/ \E doc \in SweepDocs, options \in SweepOpts : ParseSync(doc, options)
  \/ Elapse
  \/ CleanupInterval

SpecSweep == Init /\ [][NextSweep]_vars

\* the streaming parser alone: one fresh StreamingJsonParser written a
\* document in one chunk or in several, then ended
StreamOnlyDuplicates == [Uncached EXCEPT !.enablePrototypePollutionProtection = {FALSE}]

StreamOpts ==
  { StreamOnlyDuplicates, Uncached,
    [Uncached EXCEPT !.maxDepth = {SmallDepth}],
    [Uncached EXCEPT !.blacklist = {<<KeyB>>}],
    [Uncached EXCEPT !.whitelist = {<<KeyB>>}] }

InitStream ==
  /\ cache = <<>>
  /\ maxSize = DEFAULT_CACHE_SIZE
  /\ ttl = DEFAULT_CACHE_TTL
  /\ now = 0
  /\ pathStack = <<<<"$">>>>
  /\ last = [n |-> 0, api |-> "none", doc |-> Null, options |-> NoOptions,
             outcome |-> NoOutcome]
  /\ \E doc \in Docs(1), options \in StreamOpts :
       pending = <<NewParser(doc, options, pathStack)>>

NextStream ==
  \/ \E i \in 1..Len(pending) : \E n \in 1..Len(pending[i].rest) : StreamWrite(i, n)
  \/ \E i \in 1..Len(pending) : StreamEnd(i)

SpecStream == InitStream /\ [][NextStream]_vars

\* parsers in one process: StreamingJsonParsers constructed, each written its
\* document in one chunk, and ended, one after the other or overlapping
StreamsDocs == {ObjB, Obj(<<Prop(KeyA, One), Prop(KeyB, Two)>>), Arr(<<ObjB>>)}

NextStreams ==
  \/ \E doc \in StreamsDocs, options \in StreamOpts : StreamOpen(doc, options)
  \/ \E i \in 1..Len(pending) : StreamWrite(i, Len(pending[i].rest))
  \/ \E i \in 1..Len(pending) : StreamEnd(i)

SpecStreams == Init /\ [][NextStreams]_vars

\* callers that keep and change what they were returned
MutateDocs == {One, ObjA, ObjB}

MutateOpts == {NoOptions, Uncached}

NextMutate ==
  \/ \E doc \in MutateDocs, options \in MutateOpts : ParseSync(doc, options)
  \/ CallerMutates(KeyA, Two)
  \/ ClearCache

SpecMutate == Init /\ [][NextMutate]_vars

(***************************************************************************)
(* What the claims speak about, stated on the document itself.             *)
(***************************************************************************)
RECURSIVE HasLocalDup(_)
\* some object of the document has the same key twice among its own properties
HasLocalDup(node) ==
  CASE node.type = "object" ->
         \/ \E i, j \in 1..Len(node.children) :
              i < j /\ node.children[i].key = node.children[j].key
         \/ \E i \in 1..Len(node.children) : HasLocalDup(node.children[i].value)
    [] node.type = "array" -> \E i \in 1..Len(node.children) : HasLocalDup(node.children[i])
    [] OTHER -> FALSE

SetMax(S) == CHOOSE x \in S : \A y \in S : y <= x

RECURSIVE DeepestNode(_)
\* the depth of the deepest node: the root is at 0, a property value or an
\* array element one deeper than its parent
DeepestNode(node) ==
  CASE node.type = "object" /\ Len(node.children) > 0 ->
         1 + SetMax({DeepestNode(node.children[i].value) : i \in 1..Len(node.children)})
    [] node.type = "array" /\ Len(node.children) > 0 ->
         1 + SetMax({DeepestNode(node.children[i]) : i \in 1..Len(node.children)})
    [] OTHER -> 0

RECURSIVE KeysAt(_, _)
\* every object key of the document with its full path
KeysAt(node, path) ==
  CASE node.type = "object" ->
         UNION {{[key |-> node.children[i].key,
                  path |-> path \o <<".">> \o node.children[i].key]}
                  \cup KeysAt(node.children[i].value,
                              path \o <<".">> \o node.children[i].key) :
                i \in 1..Len(node.children)}
    [] node.type = "array" ->
         UNION {KeysAt(node.children[i], path \o <<"[", DigitOf(i - 1), "]">>) :
                i \in 1..Len(node.children)}
    [] OTHER -> {}

DocKeys(doc) == KeysAt(doc, <<"$">>)

RECURSIVE FirstDupFrom(_, _, _)
\* the first property, reading the text from left to right, that repeats a
\* key of its own object: in the object `node` from property i on
FirstDupFrom(node, path, i) ==
  IF node.type = "object"
    THEN IF i > Len(node.children) THEN [found |-> FALSE, key |-> <<>>, path |-> <<>>]
         ELSE
           LET key == node.children[i].key
               keyPath == path \o <<".">> \o key
               below == FirstDupFrom(node.children[i].value, keyPath, 1)
           IN IF \E j \in 1..(i - 1) : node.children[j].key = key
                THEN [found |-> TRUE, key |-> key, path |-> keyPath]
              ELSE IF below.found THEN below
              ELSE FirstDupFrom(node, path, i + 1)
  ELSE IF node.type = "array"
    THEN IF i > Len(node.children) THEN [found |-> FALSE, key |-> <<>>, path |-> <<>>]
         ELSE
           LET below == FirstDupFrom(node.children[i],
                                     path \o <<"[", DigitOf(i - 1), "]">>, 1)
           IN IF below.found THEN below ELSE FirstDupFrom(node, path, i + 1)
  ELSE [found |-> FALSE, key |-> <<>>, path |-> <<>>]

FirstDupInDocumentOrder(doc) == FirstDupFrom(doc, <<"$">>, 1)

\* the call that completed last
Call == last
Done == last.api # "none" /\ last.outcome.kind # "none"
Failed(code) == last.outcome.kind = "error" /\ last.outcome.error.code = code
Succeeded == last.outcome.kind = "value"

\* lazy mode, as asked for or as activated by the input size
LazyCall == Call.options.lazyMode = {TRUE}
              \/ ByteLength(Call.doc) >= OrElse(Call.options.lazyModeThreshold, DefaultThreshold)

\* the depth limit in effect for the call
LimitOfCall ==
  LET maxDepth == OrElse(Call.options.maxDepth, DefaultMaxDepth)
      lazyLimit == OrElse(Call.options.lazyModeDepthLimit, DefaultLazyModeDepthLimit)
  IN IF LazyCall /\ lazyLimit < maxDepth THEN lazyLimit ELSE maxDepth

\* the dangerous-key set in effect for the call, {} when the check is off
DangerousOfCall ==
  IF Call.options.enablePrototypePollutionProtection = {FALSE} THEN {}
  ELSE IF LazyCall /\ OrElse(Call.options.lazyModeSkipPrototype, TRUE) THEN {}
  ELSE SeqRange(OrElse(Call.options.dangerousKeys, DefaultDangerousKeys))

\* the allow/deny policy is applied by the call
PolicyOfCall ==
  /\ Call.options.whitelist # {} \/ Call.options.blacklist # {}
  /\ ~(LazyCall /\ OrElse(Call.options.lazyModeSkipBlacklist, FALSE))

\* the violations of the call's document
DepthViolation == DeepestNode(Call.doc) > LimitOfCall
DangerViolation == \E k \in DocKeys(Call.doc) : k.key \in DangerousOfCall
PolicyViolation ==
  /\ PolicyOfCall
  /\ \E k \in DocKeys(Call.doc) :
       ~isKeyAllowed(k.path, Call.options.whitelist, Call.options.blacklist)
DupViolation == HasLocalDup(Call.doc)

\* a finished sync call that went down the full validation path: no fast
\* path, the input under the streaming threshold, nothing served from the cache
FullPathCall ==
  /\ Done
  /\ Call.api = "sync"
  /\ Call.doc.type # "invalid"
  /\ Call.options.enableFastPath # {TRUE}
  /\ ~shouldUseStreamingForPayload(Call.doc, Call.options)
  /\ Call.outcome.mode # "cache"

(***************************************************************************)
(* C1.  In the full validation path, with no other violation present, the  *)
(* call fails with STRICT_JSON_DUPLICATE_KEY if and only if some object of *)
(* the document has the same key twice among its own properties; a key     *)
(* repeated only across different objects is never reported.               *)
(***************************************************************************)
C1_DuplicateScoping ==
  (FullPathCall /\ ~DepthViolation /\ ~DangerViolation /\ ~PolicyViolation)
    => (Failed("STRICT_JSON_DUPLICATE_KEY") <=> HasLocalDup(Call.doc))

\* a nested object repeats a key, and the call reports it
C1_Witness ==
  /\ FullPathCall /\ ~DepthViolation /\ ~DangerViolation /\ ~PolicyViolation
  /\ Failed("STRICT_JSON_DUPLICATE_KEY")
  /\ Len(Call.outcome.error.path) > Len(Call.outcome.error.key) + 2

(***************************************************************************)
(* C3.  In every mode but the fast path (normal, lazy, auto-activated      *)
(* lazy, inputs at or above streamingThreshold), a cache-missing call on a *)
(* document with a repeated key in one object fails with                   *)
(* STRICT_JSON_DUPLICATE_KEY and returns no value.                         *)
(***************************************************************************)
C3_DuplicateEveryMode ==
  (/\ Done
   /\ Call.doc.type # "invalid"
   /\ Call.options.enableFastPath # {TRUE}
   /\ Call.outcome.mode # "cache"
   /\ HasLocalDup(Call.doc)
   /\ ~DepthViolation /\ ~DangerViolation /\ ~PolicyViolation)
    => Failed("STRICT_JSON_DUPLICATE_KEY")

(***************************************************************************)
(* C4.  The deny-list check is never skippable: whatever the lazy-mode     *)
(* options, a cache-missing full-path parse of a document with a key whose *)
(* path the deny-list rejects fails with STRICT_JSON_INVALID_JSON.         *)
(***************************************************************************)
C4_DenyListNeverSkipped ==
  (/\ FullPathCall
   /\ Call.options.blacklist # {}
   /\ \E k \in DocKeys(Call.doc) : ~isKeyAllowed(k.path, {}, Call.options.blacklist)
   /\ ~DepthViolation /\ ~DangerViolation /\ ~DupViolation)
    => Failed("STRICT_JSON_INVALID_JSON")

(***************************************************************************)
(* C5.  Depth is 0 at the root and one more for every property value and   *)
(* array element.  A document with no other violation whose deepest node   *)
(* is within the effective limit parses; one whose deepest node is deeper  *)
(* fails with STRICT_JSON_DEPTH_LIMIT, currentDepth = limit + 1 and        *)
(* maxDepth = limit, however deep the document is.                         *)
(***************************************************************************)
C5_DepthBoundary ==
  (FullPathCall /\ ~DupViolation /\ ~DangerViolation /\ ~PolicyViolation)
    => IF DeepestNode(Call.doc) <= LimitOfCall
         THEN Succeeded /\ Call.outcome.value = Decode(Call.doc)
         ELSE /\ Failed("STRICT_JSON_DEPTH_LIMIT")
              /\ Call.outcome.error.currentDepth = LimitOfCall + 1
              /\ Call.outcome.error.maxDepth = LimitOfCall

\* a document at least two levels deeper than the limit is rejected at limit + 1
C5_Witness ==
  /\ FullPathCall /\ ~DupViolation /\ ~DangerViolation /\ ~PolicyViolation
  /\ DeepestNode(Call.doc) >= LimitOfCall + 2
  /\ Failed("STRICT_JSON_DEPTH_LIMIT")
  /\ Call.outcome.error.currentDepth = LimitOfCall + 1

(***************************************************************************)
(* C6.  In normal mode with protection enabled, a document with a key in   *)
(* the configured dangerous-key set is rejected with                       *)
(* STRICT_JSON_PROTOTYPE_POLLUTION (dangerousKey the key, path its full    *)
(* path) at every object depth within the depth limit; with the protection *)
(* disabled the same document is accepted and returned unchanged.          *)
(***************************************************************************)
\* a finished normal-mode call on a document that has a key of the
\* configured dangerous-key set and no node beyond the depth limit
NormalModeDangerousCall ==
  /\ FullPathCall
  /\ ~LazyCall
  /\ ~DepthViolation
  /\ \E k \in DocKeys(Call.doc) :
       k.key \in SeqRange(OrElse(Call.options.dangerousKeys, DefaultDangerousKeys))

DangerousKeyVerdict ==
  IF Call.options.enablePrototypePollutionProtection = {FALSE}
    THEN Succeeded /\ Call.outcome.value = Decode(Call.doc)
    ELSE /\ Failed("STRICT_JSON_PROTOTYPE_POLLUTION")
         /\ Call.outcome.error.dangerousKey \in DangerousOfCall
         /\ [key |-> Call.outcome.error.dangerousKey, path |-> Call.outcome.error.path]
              \in DocKeys(Call.doc)

\* the claim as written: whatever else the document holds
C6_DangerousKeyAnyDocument == NormalModeDangerousCall => DangerousKeyVerdict

\* the claim for a document with no other violation
C6_DangerousKeyRejected ==
  (NormalModeDangerousCall /\ ~DupViolation /\ ~PolicyViolation) => DangerousKeyVerdict

\* a dangerous key below the top level is reported with its full path
C6_Witness ==
  /\ NormalModeDangerousCall /\ ~DupViolation /\ ~PolicyViolation
  /\ Failed("STRICT_JSON_PROTOTYPE_POLLUTION")
  /\ Len(Call.outcome.error.path) > Len(Call.outcome.error.dangerousKey) + 2

(***************************************************************************)
(* C7.  When a document has several duplicate keys and no other violation, *)
(* the key and path of the DuplicateKeyError are those of the first        *)
(* duplicate in document order (depth-first, left to right).               *)
(***************************************************************************)
C7_FirstDuplicateReported ==
  (/\ FullPathCall /\ ~DepthViolation /\ ~DangerViolation /\ ~PolicyViolation
   /\ Failed("STRICT_JSON_DUPLICATE_KEY"))
    => /\ Call.outcome.error.key = FirstDupInDocumentOrder(Call.doc).key
       /\ Call.outcome.error.path = FirstDupInDocumentOrder(Call.doc).path

(***************************************************************************)
(* Claims about the cache and the size check.                              *)
(***************************************************************************)
\* the outcome of the call against an empty cache
FreshOutcome(doc, options) ==
  parseStrictJson(doc, options,
                  [cache |-> <<>>, maxSize |-> DEFAULT_CACHE_SIZE, ttl |-> DEFAULT_CACHE_TTL],
                  0).outcome

\* C2: the accept/reject outcome of a call depends only on its bytes and its
\* options: whatever calls were made before it, a call of parseStrictJson
\* accepts or rejects as it does against an empty cache (and so fails after
\* any history when it fails against an empty cache).
C2_OutcomeIndependentOfHistory ==
  (Done /\ last.api = "sync")
    => last.outcome.kind = FreshOutcome(last.doc, last.options).kind

\* the input of the call is larger than the limit the call passes
TooLarge(doc, options) ==
  /\ options.maxBodySizeBytes # {}
  /\ \E limit \in options.maxBodySizeBytes : Len(Serialize(doc)) > limit

BodyTooLargeOutcome(outcome) ==
  /\ outcome.kind = "error"
  /\ outcome.error.code = "STRICT_JSON_BODY_TOO_LARGE"
  /\ outcome.mode = "size"

CacheUntouched == UNCHANGED <<cache, maxSize, ttl>>

\* C8: a call whose input is larger than maxBodySizeBytes fails with
\* STRICT_JSON_BODY_TOO_LARGE at the size check, whether the content is valid
\* or not, whatever the other options and whether or not the bytes are
\* cached; no step of such a call, by parseStrictJson or parseStrictJsonAsync,
\* reads, reorders, configures or writes the cache.
C8_SizeCheckedFirst ==
  [][ /\ (last'.n # last.n /\ TooLarge(last'.doc, last'.options))
          => (BodyTooLargeOutcome(last'.outcome) /\ CacheUntouched)
      /\ (Len(pending') > Len(pending)
            /\ TooLarge(pending'[Len(pending')].doc, pending'[Len(pending')].options))
          => (/\ pending'[Len(pending')].error.code = "STRICT_JSON_BODY_TOO_LARGE"
              /\ pending'[Len(pending')].mode = "size"
              /\ CacheUntouched)
      /\ \A i \in 1..Len(pending) :
           (Len(pending') = Len(pending) /\ pending'[i] # pending[i]
              /\ TooLarge(pending[i].doc, pending[i].options))
             => (/\ pending'[i].error.code = "STRICT_JSON_BODY_TOO_LARGE"
                 /\ CacheUntouched)
    ]_vars

\* C8's case: a call of parseStrictJsonAsync has failed with
\* STRICT_JSON_BODY_TOO_LARGE on bytes that are in the cache
C8_Witness ==
  /\ Done /\ last.api = "async"
  /\ TooLarge(last.doc, last.options)
  /\ BodyTooLargeOutcome(last.outcome)
  /\ CacheIndex(cache, Serialize(last.doc)) > 0

\* C9: when a valid input has just been parsed with caching enabled and is
\* parsed again at once, the second call returns the value of the first, is
\* served from the cache and leaves the number of cache entries unchanged.
C9_SecondCallServedFromCache ==
  [][ (/\ last.n = 1 /\ last'.n = 0
       /\ last.outcome.kind = "value"
       /\ last.options.enableCache # {FALSE})
        => (/\ last'.outcome.kind = "value"
            /\ last'.outcome.value = last.outcome.value
            /\ last'.outcome.mode = "cache"
            /\ Len(cache') = Len(cache))
    ]_vars

\* the cacheSize in effect for the call completed last
CacheSizeInEffect == OrElse(last.options.cacheSize, DEFAULT_CACHE_SIZE)

\* C10: once a call with caching enabled has completed, the cache holds at
\* most as many entries as the cacheSize in effect for that call.
C10_CacheBounded ==
  (Done /\ last.options.enableCache # {FALSE}) => Len(cache) <= CacheSizeInEffect

(***************************************************************************)
(* Claims about eviction and expiry.                                       *)
(***************************************************************************)
\* the keys of the cache, least recently used first
KeysOf(c) == [i \in 1..Len(c) |-> c[i].key]

\* the keys of the cache but k, in their order
KeysBut(c, k) == SelectSeq(KeysOf(c), LAMBDA x : x # k)

\* a sequence without its first element, if it has one
Rest(q) == IF q = <<>> THEN <<>> ELSE Tail(q)

\* the step completes a call that returns a value with caching enabled
ValueReturnedCached ==
  /\ last'.n # last.n
  /\ last'.outcome.kind = "value"
  /\ last'.options.enableCache # {FALSE}

\* C11: eviction is least-recently-used.  The order of the cache is the
\* order of use: a call that returns a value (a hit or a store) leaves its
\* key the most recently used and the other keys in their order, and a store
\* of a new key into a cache that holds cacheSize entries evicts exactly the
\* least recently used one.
C11_LeastRecentlyUsedEvicted ==
  [][ ValueReturnedCached =>
        LET k == Serialize(last'.doc)
        IN /\ Len(cache') > 0
           /\ cache'[Len(cache')].key = k
           /\ KeysBut(cache', k) \in {KeysBut(cache, k), Rest(KeysBut(cache, k))}
           /\ (/\ last'.outcome.mode # "cache"
               /\ Len(cache) = maxSize'
               /\ CacheIndex(cache, k) = 0)
                => KeysOf(cache') = Append(Rest(KeysOf(cache)), k)
    ]_vars

\* the step is a call of parseStrictJson that probes the cache
ProbingCall == last'.n # last.n /\ last'.api = "sync" /\ last'.options.enableCache # {FALSE}

\* C12: the lifetime of an entry is measured from its insertion.  A probe
\* finding an entry of age at most cacheTTL returns it and moves it to the
\* most-recently-used end with its timestamp unchanged; a probe finding an
\* entry older than cacheTTL treats it as absent and deletes it, whatever hits
\* it had before.
C12_LifetimeFromInsertion ==
  [][ ProbingCall =>
        \A i \in 1..Len(cache) :
          cache[i].key = Serialize(last'.doc) =>
            LET age == now - cache[i].timestamp
                cacheTTL == OrElse(last'.options.cacheTTL, DEFAULT_CACHE_TTL)
            IN /\ (age <= cacheTTL /\ cache[i].value # Null)
                    => (/\ last'.outcome.mode = "cache"
                        /\ last'.outcome.value = cache[i].value
                        /\ cache'[Len(cache')] = cache[i])
               /\ (age > cacheTTL)
                    => (/\ last'.outcome.mode # "cache"
                        /\ \A j \in 1..Len(cache') : cache'[j] # cache[i])
    ]_vars

\* C12's case: a call has been served an entry whose age is exactly the
\* cacheTTL the call passed, beside a younger entry
C12_Witness ==
  /\ Done /\ last.outcome.mode = "cache"
  /\ last.options.cacheTTL = {SmallTTL}
  /\ Len(cache) > 1
  /\ cache[Len(cache)].key = Serialize(last.doc)
  /\ now - cache[Len(cache)].timestamp = SmallTTL
  /\ cache[1].timestamp > cache[Len(cache)].timestamp

(***************************************************************************)
(* Claims about the error handlers and the errors raised.                  *)
(***************************************************************************)
\* the kind-specific callback of an error code, <<>> when there is none
SpecificCallback(code) ==
  CASE code = "STRICT_JSON_DUPLICATE_KEY" -> <<"onDuplicateKey">>
    [] code = "STRICT_JSON_INVALID_JSON" -> <<"onInvalidJson">>
    [] code = "STRICT_JSON_BODY_TOO_LARGE" -> <<"onBodyTooLarge">>
    [] code = "STRICT_JSON_PROTOTYPE_POLLUTION" -> <<"onPrototypePollution">>
    [] OTHER -> <<>>

\* the callbacks the caller defined among `names`, in order
DefinedAmong(options, names) == SelectSeq(names, LAMBDA h : options[h] # {})

\* the callbacks invoked, in order
Invoked(handlers) == [i \in 1..Len(handlers) |-> handlers[i].handler]

\* the callbacks a failed call has invoked are the kind-specific one of its
\* error and then onError (those the caller defined), each invoked once with
\* the very error the call raises
HandlersOnceInOrder(call) ==
  /\ Invoked(call.outcome.handlers)
       = DefinedAmong(call.options,
                      SpecificCallback(call.outcome.error.code) \o <<"onError">>)
  /\ \A i \in 1..Len(call.outcome.handlers) :
       call.outcome.handlers[i].error = call.outcome.error

\* a call of parseStrictJsonAsync that starts failing invokes at most one
\* callback before it suspends, and onError only if its error has no
\* kind-specific callback
FirstCallbackOnly(p) ==
  /\ Len(p.handlers) <= 1
  /\ (p.stage = "handlers" /\ p.handlers # <<>> /\ p.handlers[1].handler = "onError")
       => SpecificCallback(p.error.code) = <<>>

\* a suspended call going on from p to q invokes at most one more callback:
\* onError, after the kind-specific callback it was suspended on has settled
OnErrorAfterSettled(p, q) ==
  /\ Len(q.handlers) <= Len(p.handlers) + 1
  /\ SubSeq(q.handlers, 1, Len(p.handlers)) = p.handlers
  /\ Len(q.handlers) > Len(p.handlers)
       => /\ q.handlers[Len(q.handlers)].handler = "onError"
          /\ Invoked(p.handlers) = DefinedAmong(p.options, SpecificCallback(p.error.code))

\* C13: every failing call of parseStrictJson and parseStrictJsonAsync
\* invokes, before it raises its error, the kind-specific callback of that
\* error once and then onError once, in that order, both with the very error
\* raised; in the async variant onError is invoked only after the promise of
\* the kind-specific callback has settled.
C13_HandlersOnceInOrder ==
  [][ /\ (last'.n # last.n /\ last'.outcome.kind = "error") => HandlersOnceInOrder(last')
      /\ (Len(pending') > Len(pending)) => FirstCallbackOnly(pending'[Len(pending')])
      /\ (Len(pending') = Len(pending))
           => \A i \in 1..Len(pending) :
                (pending'[i] # pending[i] /\ pending[i].stage = "handlers")
                  => OnErrorAfterSettled(pending[i], pending'[i])
    ]_vars

\* C13's case: an async call has failed after invoking a kind-specific
\* callback and then onError
C13_Witness ==
  /\ Done /\ last.api = "async" /\ last.outcome.kind = "error"
  /\ Len(last.outcome.handlers) = 2
  /\ last.outcome.handlers[1].handler = "onPrototypePollution"
  /\ last.outcome.handlers[2].handler = "onError"

NoHandlers ==
  [onDuplicateKey |-> {}, onInvalidJson |-> {}, onBodyTooLarge |-> {},
   onPrototypePollution |-> {}, onError |-> {}]

\* what parseStrictJson does with the input against an empty cache
SyncOutcome(doc, options) ==
  parseStrictJson(doc, options,
                  [cache |-> <<>>, maxSize |-> DEFAULT_CACHE_SIZE, ttl |-> DEFAULT_CACHE_TTL],
                  0).outcome

ErrorCodes ==
  { "STRICT_JSON_DUPLICATE_KEY", "STRICT_JSON_INVALID_JSON", "STRICT_JSON_BODY_TOO_LARGE",
    "STRICT_JSON_PROTOTYPE_POLLUTION", "STRICT_JSON_DEPTH_LIMIT" }

\* some callback the failed call invoked threw or returned a rejecting promise
SomeHandlerFailed ==
  \E i \in 1..Len(last.outcome.handlers) : HandlerFails(last.outcome.handlers[i].behaviour)

\* C14: a callback that throws or whose promise rejects never changes the
\* outcome: the call raises the typed error it handed to the callbacks (for
\* parseStrictJson, the error it raises when no callback is defined), and
\* onError, when defined, is invoked although the kind-specific callback
\* failed.
C14_HandlerFailureSwallowed ==
  (Done /\ last.outcome.kind = "error" /\ SomeHandlerFailed)
    => /\ last.outcome.error.code \in ErrorCodes
       /\ \A i \in 1..Len(last.outcome.handlers) :
            last.outcome.error = last.outcome.handlers[i].error
       /\ last.api = "sync"
            => last.outcome.error
                 = SyncOutcome(last.doc, WithHandlers(last.options, NoHandlers)).error
       /\ last.options.onError # {}
            => last.outcome.handlers[Len(last.outcome.handlers)].handler = "onError"

\* C14's case: an async call failed with a typed error after its
\* kind-specific callback returned a rejecting promise and onError was invoked
C14_Witness ==
  /\ Done /\ last.api = "async" /\ last.outcome.kind = "error"
  /\ last.outcome.error.code = "STRICT_JSON_DUPLICATE_KEY"
  /\ Len(last.outcome.handlers) = 2
  /\ last.outcome.handlers[1].behaviour = "reject"
  /\ last.outcome.handlers[2].handler = "onError"

\* C15: a failing call raises a StrictJsonError with one of the five codes;
\* a text the decoder rejects, and a document that fails with no repeated
\* key, no dangerous key and no node beyond the depth limit (an allow/deny
\* rejection), fail with STRICT_JSON_INVALID_JSON unless the input is too
\* large.
C15_TypedErrorsOnly ==
  (Done /\ last.outcome.kind = "error")
    => /\ last.outcome.error.code \in ErrorCodes
       /\ (last.outcome.error.code # "STRICT_JSON_BODY_TOO_LARGE"
             /\ (\/ last.doc.type = "invalid"
                 \/ ~DupViolation /\ ~DangerViolation /\ ~DepthViolation))
            => last.outcome.error.code = "STRICT_JSON_INVALID_JSON"

\* C15's case: the streaming parser rejected the input of an async call with
\* a plain Error, and the call raised STRICT_JSON_INVALID_JSON
C15_Witness ==
  /\ Done /\ last.api = "async" /\ last.outcome.mode = "stream"
  /\ last.doc.type # "invalid"
  /\ Failed("STRICT_JSON_INVALID_JSON")

\* C16: parseStrictJsonAsync settles with the outcome parseStrictJson
\* produces for the same input, options and cache state: the same value, or
\* an error with the same code and fields.
C16_AsyncSameAsSync ==
  (Done /\ last.api = "async")
    => LET sync == SyncOutcome(last.doc, last.options)
       IN /\ last.outcome.kind = sync.kind
          /\ last.outcome.value = sync.value
          /\ last.outcome.error = sync.error

(***************************************************************************)
(* Claims about the fast path and the allow/deny lists.                    *)
(***************************************************************************)
\* the dangerous keys the caller configured
ConfiguredDangerousKeys == SeqRange(OrElse(Call.options.dangerousKeys, DefaultDangerousKeys))

\* C17: with enableFastPath and prototype-pollution protection enabled, a
\* document that has a configured dangerous key at some depth (and no
\* repeated key and no node beyond the depth limit) is not returned: the call
\* fails with STRICT_JSON_PROTOTYPE_POLLUTION.
C17_FastPathDangerousKeys ==
  (/\ Done
   /\ Call.doc.type # "invalid"
   /\ Call.options.enableFastPath = {TRUE}
   /\ Call.options.enablePrototypePollutionProtection # {FALSE}
   /\ \E k \in DocKeys(Call.doc) : k.key \in ConfiguredDangerousKeys
   /\ ~DupViolation /\ ~DepthViolation)
    => Failed("STRICT_JSON_PROTOTYPE_POLLUTION")

\* the patterns of a list given as an option
ListOf(opt) == IF opt = {} THEN {} ELSE SeqRange(CHOOSE l \in opt : TRUE)

\* a path without its leading "$."
Unrooted(path) == IF StartsWith(path, <<"$", ".">>) THEN SliceFrom(path, 2) ELSE path

\* the path equals an allow entry that has no wildcard
EqualsExactAllow(path, whitelist) ==
  \E w \in ListOf(whitelist) : ~IncludesChar(w, "*") /\ w = Unrooted(path)

\* the allow-list admits the path, and only its wildcard patterns do
AdmittedOnlyByWildcard(path, whitelist) ==
  /\ \E w \in ListOf(whitelist) : IncludesChar(w, "*") /\ isKeyAllowed(path, {<<w>>}, {})
  /\ \A w \in ListOf(whitelist) : ~IncludesChar(w, "*") => ~isKeyAllowed(path, {<<w>>}, {})

\* a deny pattern matches the path as a glob
MatchesDeny(path, blacklist) ==
  \E p \in ListOf(blacklist) :
     matchGlobPattern(normalizeKeyForPatternMatching(Unrooted(path)), p)

\* C18: for every path of the document, with the allow-list and the deny-list
\* of the call: a path equal to an exact allow entry that also matches a deny
\* pattern is allowed, and a path admitted only by wildcard allow patterns
\* that also matches a deny pattern is rejected
C18_AllowDenyPrecedence ==
  Done =>
    \A k \in DocKeys(Call.doc) :
       LET wl == Call.options.whitelist
           bl == Call.options.blacklist
       IN /\ (EqualsExactAllow(k.path, wl) /\ MatchesDeny(k.path, bl))
               => isKeyAllowed(k.path, wl, bl)
          /\ (AdmittedOnlyByWildcard(k.path, wl) /\ MatchesDeny(k.path, bl))
               => ~isKeyAllowed(k.path, wl, bl)

\* a finished normal-mode call on the full validation path with whitelist = []
EmptyAllowCall == FullPathCall /\ ~LazyCall /\ Call.options.whitelist = {<<>>}

\* the empty allow-list admits no path of the document, whatever the deny-list
NoPathAdmitted ==
  \A k \in DocKeys(Call.doc) : ~isKeyAllowed(k.path, {<<>>}, Call.options.blacklist)

\* C19 as stated: with whitelist = [] no path is admitted, every document
\* with at least one object key fails with STRICT_JSON_INVALID_JSON, and
\* only documents without keys succeed
C19_EmptyAllowListDeniesAll ==
  EmptyAllowCall =>
    /\ NoPathAdmitted
    /\ DocKeys(Call.doc) # {} => Failed("STRICT_JSON_INVALID_JSON")
    /\ Succeeded => DocKeys(Call.doc) = {}

\* C19, amended: with whitelist = [] no path is admitted and only documents
\* without keys succeed; a document with at least one object key fails with
\* STRICT_JSON_INVALID_JSON when no node lies beyond the depth limit, and
\* with STRICT_JSON_INVALID_JSON or STRICT_JSON_DEPTH_LIMIT otherwise
C19_EmptyAllowListWithinDepth ==
  EmptyAllowCall =>
    /\ NoPathAdmitted
    /\ (DocKeys(Call.doc) # {} /\ ~DepthViolation) => Failed("STRICT_JSON_INVALID_JSON")
    /\ DocKeys(Call.doc) # {} =>
         Failed("STRICT_JSON_INVALID_JSON") \/ Failed("STRICT_JSON_DEPTH_LIMIT")
    /\ Succeeded => DocKeys(Call.doc) = {}

\* a document whose only keys are at the top level is rejected, with no
\* deny-list and nothing else wrong with it
C19_Witness ==
  /\ EmptyAllowCall
  /\ Call.doc = ObjA
  /\ Call.options.blacklist = {}
  /\ Failed("STRICT_JSON_INVALID_JSON")

\* some key of the document is admitted by no allow-list pattern, and the
\* document has nothing else wrong: no duplicate, no node beyond the depth
\* limit, no dangerous key, no key the deny-list alone rejects
OnlyAllowListViolated ==
  /\ Call.options.whitelist # {}
  /\ \E k \in DocKeys(Call.doc) : ~isKeyAllowed(k.path, Call.options.whitelist, {})
  /\ \A k \in DocKeys(Call.doc) : isKeyAllowed(k.path, {}, Call.options.blacklist)
  /\ ~DupViolation /\ ~DepthViolation /\ ~DangerViolation

\* C20: in lazy mode a key that no allow-list pattern admits does not cause
\* rejection when lazyModeSkipWhitelist is true (the default) and is rejected
\* with STRICT_JSON_INVALID_JSON when it is false, whatever
\* lazyModeSkipBlacklist is
C20_LazyAllowListBySkipWhitelist ==
  (/\ FullPathCall
   /\ Call.options.lazyMode = {TRUE}
   /\ OnlyAllowListViolated)
    => IF OrElse(Call.options.lazyModeSkipWhitelist, TRUE)
         THEN Succeeded
         ELSE Failed("STRICT_JSON_INVALID_JSON")

\* lazy mode as the caller configured it: asked for, or left open and the
\* input at least lazyModeThreshold bytes long
LazyAsConfigured ==
  \/ Call.options.lazyMode = {TRUE}
  \/ /\ Call.options.lazyMode = {}
     /\ ByteLength(Call.doc) >= OrElse(Call.options.lazyModeThreshold, DefaultThreshold)

\* the verdict of the walker when lazy mode is forced on or off
WalkerVerdict(lazy) ==
  findDuplicateKeysInJson(Call.doc, [Call.options EXCEPT !.lazyMode = {lazy}])

\* the call ended as the walker's verdict says
OutcomeFollows(w) ==
  CASE w.kind = "duplicate" -> Failed("STRICT_JSON_DUPLICATE_KEY")
    [] w.kind = "throw" -> Failed(w.error.code) /\ Call.outcome.error.maxDepth = w.error.maxDepth
    [] OTHER -> Succeeded

\* C21: lazy mode is active exactly when the caller asked for it, or left it
\* open and the input reaches lazyModeThreshold: a call with lazyMode = false
\* is validated without lazy mode at every size
C21_LazyModeOnlyWhenNotConfigured ==
  FullPathCall => OutcomeFollows(WalkerVerdict(LazyAsConfigured))

\* maxDepth and lazyModeDepthLimit as the call configures them
MaxDepthOfCall == OrElse(Call.options.maxDepth, DefaultMaxDepth)
LazyDepthLimitOfCall == OrElse(Call.options.lazyModeDepthLimit, DefaultLazyModeDepthLimit)

\* min(maxDepth, lazyModeDepthLimit) in lazy mode, maxDepth in normal mode
EffectiveDepthLimit ==
  IF ~LazyCall THEN MaxDepthOfCall
  ELSE IF MaxDepthOfCall <= LazyDepthLimitOfCall THEN MaxDepthOfCall
  ELSE LazyDepthLimitOfCall

LiteralHead(pattern) ==
  LET head == SubSeq(pattern, 1, IndexOfChar(pattern, "*"))
  IN IF EndsWith(head, <<".">>) THEN DropLast(head, 1) ELSE head

\* p is q or an ancestor of q: q continues p with a property or an index
AncestorOrSelf(p, q) ==
  p = q \/ StartsWith(q, p \o <<".">>) \/ StartsWith(q, p \o <<"[">>)

\* the path glob-matches the pattern
GlobMatches(path, pattern) ==
  matchGlobPattern(normalizeKeyForPatternMatching(Unrooted(path)), pattern)

\* the ways the allow-list admits a path: equal to a pattern, an ancestor of
\* a pattern or of a wildcard pattern's literal head, or a glob match, where
\* a pattern "*.key" is taken to match the key under any parent
AdmittedAsStated(path, whitelist) ==
  \E w \in ListOf(whitelist) :
     \/ AncestorOrSelf(Unrooted(path), w)
     \/ IncludesChar(w, "*") /\ AncestorOrSelf(Unrooted(path), LiteralHead(w))
     \/ GlobMatches(path, w)
     \/ StartsWith(w, <<"*", ".">>) /\ LastDotPart(Unrooted(path)) = SliceFrom(w, 2)

\* C23: with a non-empty allow-list and no deny-list a path is admitted only
\* if it equals a pattern, is an ancestor of a pattern or of a wildcard
\* pattern's literal head, or glob-matches a pattern; a descendant of a
\* literal head that glob-matches no pattern is rejected
C23_AllowListAdmitsOnlyStated ==
  (Done /\ Call.options.whitelist # {} /\ Call.options.whitelist # {<<>>}
        /\ Call.options.blacklist = {})
    => \A k \in DocKeys(Call.doc) :
          isKeyAllowed(k.path, Call.options.whitelist, {})
            => AdmittedAsStated(k.path, Call.options.whitelist)

\* the allow-list is given and every pattern of it has a wildcard
OnlyWildcardAllow(whitelist) ==
  whitelist # {} /\ \A w \in ListOf(whitelist) : IncludesChar(w, "*")

\* C24: adding an allow-list of wildcard patterns never weakens the
\* deny-list: a path the deny-list alone rejects is rejected with the
\* allow-list too
C24_WildcardAllowKeepsDeny ==
  (Done /\ OnlyWildcardAllow(Call.options.whitelist))
    => \A k \in DocKeys(Call.doc) :
          ~isKeyAllowed(k.path, {}, Call.options.blacklist)
            => ~isKeyAllowed(k.path, Call.options.whitelist, Call.options.blacklist)

\* the entries of a cache
EntriesOf(c) == {c[i] : i \in 1..Len(c)}

\* C25: only successful parses populate the cache: every entry a step adds
\* is keyed by the input of a call that returns a value in that step, and a
\* call that fails adds no entry
C25_OnlySuccessStored ==
  [][/\ \A e \in EntriesOf(cache') \ EntriesOf(cache) :
          /\ last' # last
          /\ last'.outcome.kind = "value"
          /\ e.key = Serialize(last'.doc)
     /\ (last' # last /\ last'.outcome.kind = "error")
          => EntriesOf(cache') \subseteq EntriesOf(cache)]_vars

\* a call failed while the cache held an entry, and the cache holds no entry
\* for the failed input
C25_Witness ==
  /\ Done
  /\ Call.outcome.kind = "error"
  /\ Call.options.enableCache # {FALSE}
  /\ cache # <<>>
  /\ CacheIndex(cache, Serialize(Call.doc)) = 0

\* the step is a run of the cleanup interval
SweepRuns == now' # now /\ now' % SweepInterval = 0

\* the entries a probe at `at` would still return as fresh under the
\* time-to-live configured for the cache
FreshEntries(entries, at) ==
  SelectSeq(entries, LAMBDA entry : ~Expired(entry.timestamp, ttl, at))

\* C26: when the background sweep runs it removes every entry older than the
\* cacheTTL configured for the cache and no entry that a probe at the same
\* instant would return as fresh
C26_SweepPurgesExactlyExpired ==
  [][SweepRuns => cache' = FreshEntries(cache, now')]_vars

\* a fresh parser was written the whole document as one chunk and ended
WholeParse ==
  /\ Done
  /\ Call.api = "parser"
  /\ last.parser.chunks = 1
  /\ last.parser.opened = <<<<"$">>>>

\* the parser signalled a duplicate key
DuplicateSignalled ==
  Call.outcome.kind = "error" /\ Call.outcome.error.message = "Duplicate key"

\* C27: a fresh StreamingJsonParser written a valid document as one chunk
\* signals a duplicate key exactly when the tree walker reports a duplicate
\* for the document, that is when some object repeats a key among its own
\* properties (no other check is configured)
C27_StreamDuplicatesAsWalker ==
  (WholeParse /\ Call.options = StreamOnlyDuplicates /\ Call.doc.type # "invalid")
    => /\ (DuplicateSignalled <=>
            (findDuplicateInNode(Call.doc, Call.options).kind = "duplicate"))
       /\ (DuplicateSignalled <=> HasLocalDup(Call.doc))

\* the end state of a fresh parser written the whole text of doc as one chunk
WholeRun(doc, options) ==
  transform(StreamState(<<<<"$">>>>), <<>>, Serialize(doc), options).st

\* the depth and key bookkeeping of a parser state
Bookkeeping(st) ==
  <<st.objectDepth, st.arrayDepth, st.currentKey, st.keysInCurrentObject, st.pathStack>>

\* C28: however the document is split into consecutive chunks, a fresh
\* parser ends with the same result (accepted, or the same error) and the
\* same depth and key bookkeeping as when it is written the document as one
\* chunk
C28_ChunkingIndependent ==
  (Done /\ Call.api = "parser" /\ last.parser.opened = <<<<"$">>>>)
    => /\ flush(last.parser.st) = flush(WholeRun(Call.doc, Call.options))
       /\ Bookkeeping(last.parser.st) = Bookkeeping(WholeRun(Call.doc, Call.options))

\* C29: parsers share no state: every parser not yet written to has
\* pathStack = ['$'] and no keys, whatever other parsers have parsed, and a
\* parser written its document as one chunk ends as a parser alone in the
\* process would
C29_ParsersShareNothing ==
  /\ \A i \in 1..Len(pending) :
        pending[i].chunks = 0
          => /\ pathStack = <<<<"$">>>>
             /\ pending[i].opened = <<<<"$">>>>
             /\ pending[i].st.keysInCurrentObject = {}
  /\ (Done /\ Call.api = "parser")
        => flush(last.parser.st) = flush(WholeRun(Call.doc, Call.options))

\* C30: every cache entry holds the JSON decode of the text that is its key,
\* and a call that returns a value returns the decode of its text, also
\* after callers have changed objects that earlier calls returned to them
C30_CacheIntegrity ==
  /\ \A i \in 1..Len(cache) : \A doc \in MutateDocs :
        cache[i].key = Serialize(doc) => cache[i].value = Decode(doc)
  /\ (Done /\ Call.api = "sync" /\ Succeeded) => Call.outcome.value = Decode(Call.doc)

====
